---------------------------- MODULE Spec2Model ----------------------------
(***************************************************************************)
(* A model of the axis-mundi server (internal/server/server.go): the mode  *)
(* state machine, the status overlay, the persisted state file, the        *)
(* background poller and the SSE broadcast hub.                            *)
(*                                                                         *)
(* Critical sections guarded by modeMu are single steps.  The hub is       *)
(* modelled at the granularity of clientsMu: taking the lock, one          *)
(* non-blocking send per registered channel, releasing the lock.  Channel  *)
(* receives, the initial-snapshot goroutine's blocking send and close() do *)
(* not take clientsMu and interleave freely with those steps.              *)
(***************************************************************************)
EXTENDS Integers, Sequences, FiniteSets, TLC

(***************************************************************************)
(* Bounds of the model.                                                    *)
(***************************************************************************)
MaxConns == 2
MaxEvents == 3
MaxDeleteBcasts == 1
MaxRestarts == 2
MaxTicks == 62
MaxReqs == 1

(***************************************************************************)
(* Program constants.                                                      *)
(***************************************************************************)
MailboxCap == 10
Period == 60

VARIABLES
    mode,       \* Server.mode
    statuses,   \* Server.statuses: map id -> label
    disk,       \* content of axis.state.json
    diskOk,     \* environment: whether os.WriteFile currently succeeds
    resp,       \* the last HTTP response written by a request handler
    boots,      \* number of process restarts so far
    modeMu,     \* holder of Server.modeMu's write lock, or nobody
    rq,         \* per request slot: a handleMode / handleStatus call in steps
    clients,    \* Server.clients: the set of registered channels
    clientsMu,  \* holder of Server.clientsMu, or "free"
    chans,      \* per channel: state ("none","open","closed") and buffer
    hpc,        \* per connection: position of handleEvents
    ctxDone,    \* per connection: r.Context() is canceled
    lastOut,    \* per connection: the last message written to the stream
    gpc,        \* per connection: position of the initial-snapshot goroutine
    gmsg,       \* per connection: the message that goroutine is sending
    pub,        \* per publisher (poller, delete goroutines): pc, msg, todo
    remaining,  \* runPoller's countdown
    events,     \* number of ticker firings, connections and disconnections so far
    nconn,      \* number of /api/events connections accepted so far
    hist,       \* history: publish ids begun/completed, channels registered,
                \* record ids fetched, outcomes of broadcastRegistry calls
    panicked,   \* a goroutine panicked: the process is dead
    uiMode,         \* App.jsx: the console's mode state
    selectedIndex,  \* App.jsx: the console's selectedIndex state (0-based)
    showDetail,     \* App.jsx: the console's showDetail state
    registry,       \* App.jsx: the console's registry state (displayed list)
    asserted        \* App.jsx: the mount effect has read /api/mode

srvVars == <<mode, statuses, disk, diskOk, resp, boots, modeMu, rq>>
hubVars == <<clients, clientsMu, chans, hpc, ctxDone, lastOut, gpc, gmsg,
             pub, remaining, events, nconn, hist, panicked>>
consoleVars == <<uiMode, selectedIndex, showDetail, registry, asserted>>
vars == <<mode, statuses, disk, diskOk, resp, boots, modeMu, rq, clients, clientsMu,
          chans, hpc, ctxDone, lastOut, gpc, gmsg, pub, remaining, events,
          nconn, hist, panicked, uiMode, selectedIndex, showDetail, registry,
          asserted>>

\* The console's state when App mounts: useState('MANUAL'), useState(0),
\* useState(false), useState([]).
ConsoleStart ==
    /\ uiMode = "MANUAL"
    /\ selectedIndex = 0
    /\ showDetail = FALSE
    /\ registry = <<>>
    /\ asserted = FALSE

(***************************************************************************)
(* Strings.  "n<FF>" stands for a byte string that is not valid UTF-8 (a   *)
(* query parameter such as id=n%ff); "n<FFFD>" is the same string with the *)
(* offending byte replaced by U+FFFD.                                      *)
(***************************************************************************)
KeepId == "k1"
DocId == "d1"
SheetId == "s1"
RawId == "n<FF>"
ReplId == "n<FFFD>"

Modes == {"AUTO", "MANUAL"}
ModeInputs == {"", "AUTO", "MANUAL", "BOGUS", "auto"}
Labels == {"Pending", "Execute", "Keep"}
StatusIdInputs == {"", KeepId, DocId, RawId}
StatusInputs == {"", "Keep", "Execute", "Bogus"}

EmptyMap == [k \in {} |-> ""]

\* m[k] = v, creating or replacing the entry
MapPut(m, k, v) == [x \in (DOMAIN m) \cup {k} |-> IF x = k THEN v ELSE m[x]]

(***************************************************************************)
(* encoding/json.  Marshal coerces every string to valid UTF-8; object     *)
(* keys are written sorted by their original bytes, so when two keys       *)
(* coerce to the same text the entry of the greater key ("n<FF>", byte     *)
(* 0xFF, sorts after "n<FFFD>", bytes EF BF BD) is written last, and       *)
(* Unmarshal keeps the last duplicate.                                     *)
(***************************************************************************)
ToValidUTF8(s) == IF s = RawId THEN ReplId ELSE s

JsonObject(m) ==
    [k \in {ToValidUTF8(x) : x \in DOMAIN m} |->
        IF k = ReplId /\ RawId \in DOMAIN m
        THEN ToValidUTF8(m[RawId])
        ELSE ToValidUTF8(m[k])]

NoFile == [kind |-> "absent", mode |-> "", hasStatuses |-> FALSE,
           statuses |-> EmptyMap]
\* A file json.Unmarshal rejects.  CorruptFile is not JSON at all (or cut
\* short); TypeErrorFile is JSON whose "statuses" has the wrong type, where
\* Unmarshal reports the error after having decoded "mode".
CorruptFile == [kind |-> "corrupt", mode |-> "", hasStatuses |-> FALSE,
                statuses |-> EmptyMap]
TypeErrorFile == [kind |-> "corrupt", mode |-> "MANUAL", hasStatuses |-> FALSE,
                  statuses |-> EmptyMap]

\* persistentState as json.MarshalIndent writes it
MarshalState(m, st) ==
    [kind |-> "doc", mode |-> ToValidUTF8(m), hasStatuses |-> TRUE,
     statuses |-> JsonObject(st)]


(***************************************************************************)
(* Persistence Store.                                                      *)
(***************************************************************************)

\* Variant of LoadState that restores whatever mode string the file holds.
LoadState_AnyMode(d, m0, st0) ==
    IF d.kind # "doc"
    THEN [mode |-> m0, statuses |-> st0]
    ELSE [mode |-> d.mode,
          statuses |-> IF d.hasStatuses THEN d.statuses ELSE st0]

\* Variant of LoadState that logs a parse error and goes on with what
\* Unmarshal decoded before it failed.
LoadState_NoReturnOnCorrupt(d, m0, st0) ==
    IF d.kind = "absent"
    THEN [mode |-> m0, statuses |-> st0]
    ELSE [mode |-> IF d.mode = "AUTO" \/ d.mode = "MANUAL" THEN d.mode ELSE m0,
          statuses |-> IF d.hasStatuses THEN d.statuses ELSE st0]

\* The mode and overlay a fresh server (mode m0, overlay st0) holds after
\* loadState has read file content d.
LoadState(d, m0, st0) ==
    IF d.kind # "doc"
    THEN [mode |-> m0, statuses |-> st0]
    ELSE [mode |-> IF d.mode = "AUTO" \/ d.mode = "MANUAL" THEN d.mode ELSE m0,
          statuses |-> IF d.hasStatuses THEN d.statuses ELSE st0]

\* NewServer: the defaults, then loadState
NewServer(d) == LoadState(d, "AUTO", EmptyMap)

\* The file contents saveState(m, st) can leave behind when the file held d:
\* os.WriteFile truncates, then writes; a failure leaves the old content
\* (open failed) or a partial one (write failed).
SaveState(m, st, d, ok) ==
    IF ok THEN {MarshalState(m, st)} ELSE {d, CorruptFile}

(***************************************************************************)
(* Status Overlay.                                                         *)
(***************************************************************************)
Item(id, type, title, snippet) ==
    [id |-> id, type |-> type, title |-> title, snippet |-> snippet]

KeepItem == Item(KeepId, "keep", "note", "Google Keep Note")
DocItem == Item(DocId, "doc", "doc", "Google Doc")

\* what workspace.ListRegistryItems may return when it succeeds
ProviderLists == {<<>>, <<KeepItem>>, <<KeepItem, DocItem>>}
\* a provider list with two keep records
Keep2Item == Item("k2", "keep", "note", "Google Keep Note")
FaultLists == ProviderLists \cup {<<KeepItem, Keep2Item>>}
HubProviderLists == {<<KeepItem>>}

\* Variant of Enriched that sets the status of a fresh item instead of a
\* copy of the record (enriched[i] = item left out).
Enriched_OnlyStatus(item, status) ==
    [id |-> "", type |-> "", title |-> "", snippet |-> "", status |-> status]

\* enriched[i] = item; enriched[i].Status = status
Enriched(item, status) ==
    [id |-> item.id, type |-> item.type, title |-> item.title,
     snippet |-> item.snippet, status |-> status]

\* Variant of EnrichLoop that returns the default label for a keep record
\* without storing it in the overlay.
RECURSIVE EnrichLoop_NoRecord(_, _, _, _, _)
EnrichLoop_NoRecord(items, i, st, out, modified) ==
    IF i > Len(items)
    THEN [items |-> out, statuses |-> st, modified |-> modified]
    ELSE LET item == items[i] IN
         IF item.id \in DOMAIN st
         THEN EnrichLoop_NoRecord(items, i + 1, st,
                         Append(out, Enriched(item, st[item.id])), modified)
         ELSE IF item.type = "keep"
         THEN EnrichLoop_NoRecord(items, i + 1, st,
                         Append(out, Enriched(item, "Keep")), modified)
         ELSE EnrichLoop_NoRecord(items, i + 1, st,
                         Append(out, Enriched(item, "")), modified)

\* The loop of enrichItems over items[i..], with the overlay st and the
\* items enriched so far.
RECURSIVE EnrichLoop(_, _, _, _, _)
EnrichLoop(items, i, st, out, modified) ==
    IF i > Len(items)
    THEN [items |-> out, statuses |-> st, modified |-> modified]
    ELSE LET item == items[i] IN
         IF item.id \in DOMAIN st
         THEN EnrichLoop(items, i + 1, st,
                         Append(out, Enriched(item, st[item.id])), modified)
         ELSE IF item.type = "keep"
         THEN EnrichLoop(items, i + 1, MapPut(st, item.id, "Keep"),
                         Append(out, Enriched(item, "Keep")), TRUE)
         ELSE EnrichLoop(items, i + 1, st,
                         Append(out, Enriched(item, "")), modified)

EnrichItems(items, st) == EnrichLoop(items, 1, st, <<>>, FALSE)

\* Variant of EnrichStep that calls saveState whether or not a record was
\* defaulted.
EnrichStep_AlwaysSave(items) ==
    LET r == EnrichItems(items, statuses) IN
    /\ statuses' = r.statuses
    /\ disk' \in SaveState(mode, r.statuses, disk, diskOk)

\* enrichItems as a step on the server state: the overlay after the pass
\* and the file after the conditional saveState
EnrichStep(items) ==
    LET r == EnrichItems(items, statuses) IN
    /\ statuses' = r.statuses
    /\ IF r.modified
       THEN disk' \in SaveState(mode, r.statuses, disk, diskOk)
       ELSE disk' = disk

(***************************************************************************)
(* Requests served step by step (lock, body, marshal, write, unlock).      *)
(***************************************************************************)
Reqs == {<<"req", i>> : i \in 1..MaxReqs}

\* a request slot: the handler ("mode", "status"), its position, its query
\* parameters, and saveState's local data
IdleReq == [op |-> "none", pc |-> "idle", a |-> "", b |-> "", data |-> NoFile]

(***************************************************************************)
(* HTTP responses.                                                         *)
(***************************************************************************)
\* The last request served and the response written to it: the handler, the
\* query parameters, the status code, and the body (a text or a JSON list).
Response(handler, req, code, text, items) ==
    [handler |-> handler, req |-> req, code |-> code, text |-> text,
     items |-> items]

NoResponse == Response("none", <<>>, 0, "", <<>>)


(***************************************************************************)
(* Broadcast hub: channels, messages, publishers.                          *)
(***************************************************************************)
Conns == 1..MaxConns
PollerId == <<"poller", 0>>
DeleteProcs == {<<"del", i>> : i \in 1..MaxDeleteBcasts}
Pubs == {PollerId} \cup DeleteProcs

\* SSEMessage{Event, Data}.  id and excl are history: the number of the
\* publish call that made the message (0: the initial snapshot of a
\* connection) and the channels already deregistered when that call began;
\* seq is the message's position among all sends to its channel.
Msg(event, count, items, id, excl) ==
    [event |-> event, count |-> count, items |-> items, id |-> id,
     excl |-> excl, seq |-> 0]

NoMsg == Msg("none", 0, <<>>, 0, {})
TickMsg(n, id, excl) == Msg("tick", n, <<>>, id, excl)
SnapshotMsg(items, id, excl) == Msg("", 0, items, id, excl)

NoChan == [state |-> "none", buf |-> <<>>, sent |-> 0]
NewChan == [state |-> "open", buf |-> <<>>, sent |-> 0]

IsFull(ch) == Len(ch.buf) >= MailboxCap

\* ch <- m on a channel with room
Enqueue(ch, m) ==
    [ch EXCEPT !.buf = Append(ch.buf, [m EXCEPT !.seq = ch.sent + 1]),
               !.sent = ch.sent + 1]

\* select { case ch <- m: default: } on an open channel
SelectSend(ch, m) == IF IsFull(ch) THEN ch ELSE Enqueue(ch, m)

\* arg: the id a delete request carries from its mode check to its provider
\* call
IdlePub == [pc |-> "none", msg |-> NoMsg, todo |-> {}, begin |-> {}, arg |-> ""]
\* seen: the ids of the records ListRegistryItems has returned so far;
\* snaps, failed: the broadcastRegistry calls that published, and those whose
\* fetch failed; sawManual: some ticker firing observed a mode other than AUTO
NoHist == [nextId |-> 1, completed |-> {}, born |-> [c \in Conns |-> {}],
           gone |-> {}, seen |-> {}, snaps |-> {}, failed |-> {},
           sawManual |-> FALSE]

\* the ids of a record list
ItemIds(items) == {items[i].id : i \in 1..Len(items)}

\* a publish call begins: its message gets the next publish id
BeginPublish(p, pc, m) ==
    /\ pub' = [pub EXCEPT ![p] = [pc |-> pc,
                                  msg |-> [m EXCEPT !.id = hist.nextId,
                                                    !.excl = hist.gone],
                                  todo |-> {}, begin |-> clients,
                                  arg |-> pub[p].arg]]
    /\ hist' = [hist EXCEPT !.nextId = hist.nextId + 1]


(***************************************************************************)
(* Initial states.                                                         *)
(***************************************************************************)

\* what axis.state.json may hold when the process first starts
InitDisks ==
    {NoFile, CorruptFile, TypeErrorFile} \cup
    {[kind |-> "doc", mode |-> m, hasStatuses |-> h,
      statuses |-> IF h THEN MapPut(EmptyMap, KeepId, "Execute") ELSE EmptyMap] :
        m \in {"", "AUTO", "MANUAL", "BOGUS"}, h \in BOOLEAN}

\* runPoller's state before the first tick, and every delete goroutine unborn
StartPubs == [p \in Pubs |-> IF p = PollerId
                             THEN [IdlePub EXCEPT !.pc = "wait"]
                             ELSE IdlePub]

\* the hub of a process that has just started
HubStart ==
    /\ clients = {}
    /\ clientsMu = {}
    /\ chans = [c \in Conns |-> NoChan]
    /\ hpc = [c \in Conns |-> "none"]
    /\ ctxDone = [c \in Conns |-> FALSE]
    /\ lastOut = [c \in Conns |-> NoMsg]
    /\ gpc = [c \in Conns |-> "none"]
    /\ gmsg = [c \in Conns |-> NoMsg]
    /\ pub = StartPubs
    /\ remaining = Period
    /\ events = 0
    /\ nconn = 0
    /\ panicked = FALSE

\* the same, as the effect of a restart
HubRestart ==
    /\ clients' = {}
    /\ clientsMu' = {}
    /\ chans' = [c \in Conns |-> NoChan]
    /\ hpc' = [c \in Conns |-> "none"]
    /\ ctxDone' = [c \in Conns |-> FALSE]
    /\ lastOut' = [c \in Conns |-> NoMsg]
    /\ gpc' = [c \in Conns |-> "none"]
    /\ gmsg' = [c \in Conns |-> NoMsg]
    /\ pub' = StartPubs
    /\ remaining' = Period
    /\ events' = 0
    /\ nconn' = 0
    /\ hist' = [NoHist EXCEPT !.seen = hist.seen]
    /\ panicked' = FALSE

\* NewServer on any state file, then Start.  The ids the file carries are
\* taken to have been fetched by the run that wrote it.
Init ==
    /\ disk \in InitDisks
    /\ diskOk = TRUE
    /\ mode = NewServer(disk).mode
    /\ statuses = NewServer(disk).statuses
    /\ resp = NoResponse
    /\ boots = 0
    /\ modeMu = {}
    /\ rq = [t \in Reqs |-> IdleReq]
    /\ hist = [NoHist EXCEPT !.seen = DOMAIN NewServer(disk).statuses]
    /\ HubStart
    /\ ConsoleStart

(***************************************************************************)
(* Request handlers on the mode and the overlay.                           *)
(***************************************************************************)

\* Variant of HandleMode that updates the mode without calling saveState.
HandleMode_NoSave(newMode) ==
    /\ ~panicked
    /\ IF newMode = ""
       THEN /\ resp' = Response("mode", <<newMode>>, 200, mode, <<>>)
            /\ UNCHANGED <<mode, disk>>
       ELSE IF newMode # "AUTO" /\ newMode # "MANUAL"
       THEN /\ resp' = Response("mode", <<newMode>>, 400, "invalid mode", <<>>)
            /\ UNCHANGED <<mode, disk>>
       ELSE /\ mode' = newMode
            /\ disk' = disk
            /\ resp' = Response("mode", <<newMode>>, 200, "", <<>>)
    /\ UNCHANGED <<statuses, diskOk, boots, modeMu, rq>>
    /\ UNCHANGED hubVars
    /\ UNCHANGED consoleVars

\* Variant of HandleMode without the check of the value.
HandleMode_NoCheck(newMode) ==
    /\ ~panicked
    /\ IF newMode = ""
       THEN /\ resp' = Response("mode", <<newMode>>, 200, mode, <<>>)
            /\ UNCHANGED <<mode, disk>>
       ELSE /\ mode' = newMode
            /\ disk' \in SaveState(newMode, statuses, disk, diskOk)
            /\ resp' = Response("mode", <<newMode>>, 200, "", <<>>)
    /\ UNCHANGED <<statuses, diskOk, boots, modeMu, rq>>
    /\ UNCHANGED hubVars
    /\ UNCHANGED consoleVars

\* GET /api/mode?set=newMode
\* Variant of HandleMode that restores the old mode and answers 500 when
\* saveState fails.
HandleMode_RollbackOnFail(newMode) ==
    /\ ~panicked
    /\ IF newMode = ""
       THEN /\ resp' = Response("mode", <<newMode>>, 200, mode, <<>>)
            /\ UNCHANGED <<mode, disk>>
       ELSE IF newMode # "AUTO" /\ newMode # "MANUAL"
       THEN /\ resp' = Response("mode", <<newMode>>, 400, "invalid mode", <<>>)
            /\ UNCHANGED <<mode, disk>>
       ELSE /\ mode' = IF diskOk THEN newMode ELSE mode
            /\ disk' \in SaveState(newMode, statuses, disk, diskOk)
            /\ resp' = Response("mode", <<newMode>>, IF diskOk THEN 200 ELSE 500,
                                "", <<>>)
    /\ UNCHANGED <<statuses, diskOk, boots, modeMu, rq>>
    /\ UNCHANGED hubVars
    /\ UNCHANGED consoleVars

HandleMode(newMode) ==
    /\ ~panicked
    /\ IF newMode = ""
       THEN /\ resp' = Response("mode", <<newMode>>, 200, mode, <<>>)
            /\ UNCHANGED <<mode, disk>>
       ELSE IF newMode # "AUTO" /\ newMode # "MANUAL"
       THEN /\ resp' = Response("mode", <<newMode>>, 400, "invalid mode", <<>>)
            /\ UNCHANGED <<mode, disk>>
       ELSE /\ mode' = newMode
            /\ disk' \in SaveState(newMode, statuses, disk, diskOk)
            /\ resp' = Response("mode", <<newMode>>, 200, "", <<>>)
    /\ UNCHANGED <<statuses, diskOk, boots, modeMu, rq>>
    /\ UNCHANGED hubVars
    /\ UNCHANGED consoleVars

\* Variant of HandleStatus that updates the overlay without calling
\* saveState.
HandleStatus_NoSave(id, status) ==
    /\ ~panicked
    /\ IF id = "" \/ status = ""
       THEN /\ resp' = Response("status", <<id, status>>, 400, "missing id or status", <<>>)
            /\ UNCHANGED <<statuses, disk>>
       ELSE /\ statuses' = MapPut(statuses, id, status)
            /\ disk' = disk
            /\ resp' = Response("status", <<id, status>>, 200, "", <<>>)
    /\ UNCHANGED <<mode, diskOk, boots, modeMu, rq>>
    /\ UNCHANGED hubVars
    /\ UNCHANGED consoleVars

\* Variant of HandleStatus that creates an entry but keeps an existing one.
HandleStatus_NoReplace(id, status) ==
    /\ ~panicked
    /\ IF id = "" \/ status = ""
       THEN /\ resp' = Response("status", <<id, status>>, 400, "missing id or status", <<>>)
            /\ UNCHANGED <<statuses, disk>>
       ELSE /\ statuses' = IF id \in DOMAIN statuses THEN statuses
                           ELSE MapPut(statuses, id, status)
            /\ disk' \in SaveState(mode, statuses', disk, diskOk)
            /\ resp' = Response("status", <<id, status>>, 200, "", <<>>)
    /\ UNCHANGED <<mode, diskOk, boots, modeMu, rq>>
    /\ UNCHANGED hubVars
    /\ UNCHANGED consoleVars

\* GET /api/status?id=..&status=..
HandleStatus(id, status) ==
    /\ ~panicked
    /\ IF id = "" \/ status = ""
       THEN /\ resp' = Response("status", <<id, status>>, 400, "missing id or status", <<>>)
            /\ UNCHANGED <<statuses, disk>>
       ELSE /\ statuses' = MapPut(statuses, id, status)
            /\ disk' \in SaveState(mode, MapPut(statuses, id, status), disk, diskOk)
            /\ resp' = Response("status", <<id, status>>, 200, "", <<>>)
    /\ UNCHANGED <<mode, diskOk, boots, modeMu, rq>>
    /\ UNCHANGED hubVars
    /\ UNCHANGED consoleVars

\* GET /api/registry; fetched is the provider's answer
HandleRegistry(fetchOk, fetched) ==
    /\ ~panicked
    /\ IF ~fetchOk
       THEN /\ resp' = Response("registry", <<>>, 500, "fetch failed", <<>>)
            /\ UNCHANGED <<statuses, disk, hist>>
       ELSE /\ EnrichStep(fetched)
            /\ hist' = [hist EXCEPT !.seen = hist.seen \cup ItemIds(fetched)]
            /\ resp' = Response("registry", <<>>, 200, "",
                                EnrichItems(fetched, statuses).items)
    /\ UNCHANGED <<mode, diskOk, boots, modeMu, rq>>
    /\ UNCHANGED <<clients, clientsMu, chans, hpc, ctxDone, lastOut, gpc, gmsg,
                   pub, remaining, events, nconn, panicked>>
    /\ UNCHANGED consoleVars

\* the process stops (or has crashed) and is started again: NewServer, Start
Restart ==
    /\ boots < MaxRestarts
    /\ boots' = boots + 1
    /\ mode' = NewServer(disk).mode
    /\ statuses' = NewServer(disk).statuses
    /\ resp' = NoResponse
    /\ modeMu' = {}
    /\ rq' = [t \in Reqs |-> IdleReq]
    /\ UNCHANGED <<disk, diskOk>>
    /\ HubRestart
    /\ UNCHANGED consoleVars


(***************************************************************************)
(* The poller and the publishers.                                          *)
(***************************************************************************)

\* Variant of Tick that counts down and publishes whatever the mode is.
Tick_IgnoreMode(limit) ==
    /\ ~panicked
    /\ pub[PollerId].pc = "wait"
    /\ events < limit
    /\ events' = events + 1
    /\ remaining' = remaining - 1
    /\ BeginPublish(PollerId, "tick_lock", TickMsg(remaining - 1, 0, {}))
    /\ UNCHANGED srvVars
    /\ UNCHANGED <<clients, clientsMu, chans, hpc, ctxDone, lastOut, gpc, gmsg,
                   nconn, panicked>>
    /\ UNCHANGED consoleVars

\* Variant of Tick that publishes the count it read, before the decrement.
Tick_PublishOld(limit) ==
    /\ ~panicked
    /\ pub[PollerId].pc = "wait"
    /\ events < limit
    /\ events' = events + 1
    /\ IF mode = "AUTO"
       THEN /\ remaining' = remaining - 1
            /\ BeginPublish(PollerId, "tick_lock", TickMsg(remaining, 0, {}))
       ELSE /\ remaining' = Period
            /\ hist' = [hist EXCEPT !.sawManual = TRUE]
            /\ UNCHANGED pub
    /\ UNCHANGED srvVars
    /\ UNCHANGED <<clients, clientsMu, chans, hpc, ctxDone, lastOut, gpc, gmsg,
                   nconn, panicked>>
    /\ UNCHANGED consoleVars

\* Variant of Tick that pauses the countdown in MANUAL instead of resetting it.
Tick_PauseOnManual(limit) ==
    /\ ~panicked
    /\ pub[PollerId].pc = "wait"
    /\ events < limit
    /\ events' = events + 1
    /\ IF mode = "AUTO"
       THEN /\ remaining' = remaining - 1
            /\ BeginPublish(PollerId, "tick_lock", TickMsg(remaining - 1, 0, {}))
       ELSE /\ remaining' = remaining
            /\ hist' = [hist EXCEPT !.sawManual = TRUE]
            /\ UNCHANGED pub
    /\ UNCHANGED srvVars
    /\ UNCHANGED <<clients, clientsMu, chans, hpc, ctxDone, lastOut, gpc, gmsg,
                   nconn, panicked>>
    /\ UNCHANGED consoleVars

\* runPoller, one ticker firing, in a run of at most limit events: read the
\* mode; in AUTO decrement the countdown and enter broadcastTick, otherwise
\* set the countdown to its reset value
Tick(limit) ==
    /\ ~panicked
    /\ pub[PollerId].pc = "wait"
    /\ events < limit
    /\ events' = events + 1
    /\ IF mode = "AUTO"
       THEN /\ remaining' = remaining - 1
            /\ BeginPublish(PollerId, "tick_lock", TickMsg(remaining - 1, 0, {}))
       ELSE /\ remaining' = Period
            /\ hist' = [hist EXCEPT !.sawManual = TRUE]
            /\ UNCHANGED pub
    /\ UNCHANGED srvVars
    /\ UNCHANGED <<clients, clientsMu, chans, hpc, ctxDone, lastOut, gpc, gmsg,
                   nconn, panicked>>
    /\ UNCHANGED consoleVars

PollerTick == Tick(MaxEvents)

\* s.clientsMu.Lock() in broadcastTick / broadcastRegistry; the range loop
\* will visit the channels registered now
TakeLock(p) ==
    /\ ~panicked
    /\ pub[p].pc \in {"tick_lock", "reg_lock"}
    /\ clientsMu = {}
    /\ clientsMu' = {p}
    /\ pub' = [pub EXCEPT ![p].pc = IF pub[p].pc = "tick_lock"
                                    THEN "tick_iter" ELSE "reg_iter",
                          ![p].todo = clients]
    /\ UNCHANGED srvVars
    /\ UNCHANGED <<clients, chans, hpc, ctxDone, lastOut, gpc, gmsg,
                   remaining, events, nconn, hist, panicked>>
    /\ UNCHANGED consoleVars

\* Variant of TrySend with a plain send, clientChan <- msg, which waits for
\* room in the mailbox.
TrySend_Blocking(p, c) ==
    /\ ~panicked
    /\ pub[p].pc \in {"tick_iter", "reg_iter"}
    /\ c \in pub[p].todo
    /\ pub' = [pub EXCEPT ![p].todo = pub[p].todo \ {c}]
    /\ IF chans[c].state = "closed"
       THEN /\ panicked' = TRUE
            /\ UNCHANGED chans
       ELSE /\ ~IsFull(chans[c])
            /\ chans' = [chans EXCEPT ![c] = Enqueue(chans[c], pub[p].msg)]
            /\ UNCHANGED panicked
    /\ UNCHANGED srvVars
    /\ UNCHANGED <<clients, clientsMu, hpc, ctxDone, lastOut, gpc, gmsg,
                   remaining, events, nconn, hist>>
    /\ UNCHANGED consoleVars

\* Variant of TrySend whose default case removes the subscriber from the
\* registry and closes its mailbox.
TrySend_EvictOnFull(p, c) ==
    /\ ~panicked
    /\ pub[p].pc \in {"tick_iter", "reg_iter"}
    /\ c \in pub[p].todo
    /\ pub' = [pub EXCEPT ![p].todo = pub[p].todo \ {c}]
    /\ IF chans[c].state = "closed"
       THEN /\ panicked' = TRUE
            /\ UNCHANGED <<chans, clients>>
       ELSE IF IsFull(chans[c])
       THEN /\ chans' = [chans EXCEPT ![c].state = "closed"]
            /\ clients' = clients \ {c}
            /\ UNCHANGED panicked
       ELSE /\ chans' = [chans EXCEPT ![c] = SelectSend(chans[c], pub[p].msg)]
            /\ UNCHANGED <<panicked, clients>>
    /\ UNCHANGED srvVars
    /\ UNCHANGED <<clientsMu, hpc, ctxDone, lastOut, gpc, gmsg,
                   remaining, events, nconn, hist>>
    /\ UNCHANGED consoleVars

\* Variant of TrySend whose default case leaves the range loop.
TrySend_BreakOnFull(p, c) ==
    /\ ~panicked
    /\ pub[p].pc \in {"tick_iter", "reg_iter"}
    /\ c \in pub[p].todo
    /\ pub' = [pub EXCEPT ![p].todo = IF IsFull(chans[c]) THEN {}
                                      ELSE pub[p].todo \ {c}]
    /\ IF chans[c].state = "closed"
       THEN /\ panicked' = TRUE
            /\ UNCHANGED chans
       ELSE /\ chans' = [chans EXCEPT ![c] = SelectSend(chans[c], pub[p].msg)]
            /\ UNCHANGED panicked
    /\ UNCHANGED srvVars
    /\ UNCHANGED <<clients, clientsMu, hpc, ctxDone, lastOut, gpc, gmsg,
                   remaining, events, nconn, hist>>
    /\ UNCHANGED consoleVars

\* one iteration of the range loop: the select on channel c
TrySend(p, c) ==
    /\ ~panicked
    /\ pub[p].pc \in {"tick_iter", "reg_iter"}
    /\ c \in pub[p].todo
    /\ pub' = [pub EXCEPT ![p].todo = pub[p].todo \ {c}]
    /\ IF chans[c].state = "closed"
       THEN /\ panicked' = TRUE
            /\ UNCHANGED chans
       ELSE /\ chans' = [chans EXCEPT ![c] = SelectSend(chans[c], pub[p].msg)]
            /\ UNCHANGED panicked
    /\ UNCHANGED srvVars
    /\ UNCHANGED <<clients, clientsMu, hpc, ctxDone, lastOut, gpc, gmsg,
                   remaining, events, nconn, hist>>
    /\ UNCHANGED consoleVars

\* the position of publisher p after its broadcastRegistry call returned
AfterRegistry(p) == IF p = PollerId THEN "wait" ELSE "done"

\* Variant of Unlock after which runPoller does not reset the countdown when
\* broadcastRegistry has returned.
Unlock_NoReset(p) ==
    /\ ~panicked
    /\ pub[p].pc \in {"tick_iter", "reg_iter"}
    /\ pub[p].todo = {}
    /\ clientsMu' = {}
    /\ IF pub[p].pc = "tick_iter"
       THEN IF remaining <= 0
            THEN \* runPoller calls broadcastRegistry
                 /\ pub' = [pub EXCEPT ![p] =
                        [pc |-> "reg_fetch",
                         msg |-> SnapshotMsg(<<>>, hist.nextId, hist.gone),
                         todo |-> {}, begin |-> clients, arg |-> ""]]
                 /\ hist' = [hist EXCEPT
                        !.nextId = hist.nextId + 1,
                        !.completed = hist.completed \cup {pub[p].msg.id}]
                 /\ UNCHANGED remaining
            ELSE /\ pub' = [pub EXCEPT ![p].pc = "wait"]
                 /\ hist' = [hist EXCEPT
                        !.completed = hist.completed \cup {pub[p].msg.id}]
                 /\ UNCHANGED remaining
       ELSE /\ pub' = [pub EXCEPT ![p].pc = AfterRegistry(p)]
            /\ hist' = [hist EXCEPT
                   !.completed = hist.completed \cup {pub[p].msg.id},
                   !.snaps = hist.snaps \cup {pub[p].msg.id}]
            /\ remaining' = remaining
    /\ UNCHANGED srvVars
    /\ UNCHANGED <<clients, chans, hpc, ctxDone, lastOut, gpc, gmsg,
                   events, nconn, panicked>>
    /\ UNCHANGED consoleVars

\* the range loop is over: the deferred Unlock, and the return to the caller
Unlock(p) ==
    /\ ~panicked
    /\ pub[p].pc \in {"tick_iter", "reg_iter"}
    /\ pub[p].todo = {}
    /\ clientsMu' = {}
    /\ IF pub[p].pc = "tick_iter"
       THEN IF remaining <= 0
            THEN \* runPoller calls broadcastRegistry
                 /\ pub' = [pub EXCEPT ![p] =
                        [pc |-> "reg_fetch",
                         msg |-> SnapshotMsg(<<>>, hist.nextId, hist.gone),
                         todo |-> {}, begin |-> clients, arg |-> ""]]
                 /\ hist' = [hist EXCEPT
                        !.nextId = hist.nextId + 1,
                        !.completed = hist.completed \cup {pub[p].msg.id}]
                 /\ UNCHANGED remaining
            ELSE /\ pub' = [pub EXCEPT ![p].pc = "wait"]
                 /\ hist' = [hist EXCEPT
                        !.completed = hist.completed \cup {pub[p].msg.id}]
                 /\ UNCHANGED remaining
       ELSE /\ pub' = [pub EXCEPT ![p].pc = AfterRegistry(p)]
            /\ hist' = [hist EXCEPT
                   !.completed = hist.completed \cup {pub[p].msg.id},
                   !.snaps = hist.snaps \cup {pub[p].msg.id}]
            /\ remaining' = IF p = PollerId THEN Period ELSE remaining
    /\ UNCHANGED srvVars
    /\ UNCHANGED <<clients, chans, hpc, ctxDone, lastOut, gpc, gmsg,
                   events, nconn, panicked>>
    /\ UNCHANGED consoleVars

\* Variant of FetchRegistry after whose failure runPoller leaves the countdown
\* where it is, so that the next firing fetches again.
FetchRegistry_NoReset(p, fetchOk, fetched) ==
    /\ ~panicked
    /\ pub[p].pc = "reg_fetch"
    /\ IF ~fetchOk
       THEN /\ pub' = [pub EXCEPT ![p].pc = AfterRegistry(p)]
            /\ hist' = [hist EXCEPT
                   !.completed = hist.completed \cup {pub[p].msg.id},
                   !.failed = hist.failed \cup {pub[p].msg.id}]
            /\ remaining' = remaining
            /\ UNCHANGED <<statuses, disk>>
       ELSE /\ EnrichStep(fetched)
            /\ pub' = [pub EXCEPT
                   ![p].pc = "reg_lock",
                   ![p].msg.items = EnrichItems(fetched, statuses).items]
            /\ hist' = [hist EXCEPT !.seen = hist.seen \cup ItemIds(fetched)]
            /\ UNCHANGED remaining
    /\ UNCHANGED <<mode, diskOk, resp, boots, modeMu, rq>>
    /\ UNCHANGED <<clients, clientsMu, chans, hpc, ctxDone, lastOut, gpc, gmsg,
                   events, nconn, panicked>>
    /\ UNCHANGED consoleVars

\* broadcastRegistry up to its lock: ListRegistryItems, enrichItems, Marshal
FetchRegistry(p, fetchOk, fetched) ==
    /\ ~panicked
    /\ pub[p].pc = "reg_fetch"
    /\ IF ~fetchOk
       THEN /\ pub' = [pub EXCEPT ![p].pc = AfterRegistry(p)]
            /\ hist' = [hist EXCEPT
                   !.completed = hist.completed \cup {pub[p].msg.id},
                   !.failed = hist.failed \cup {pub[p].msg.id}]
            /\ remaining' = IF p = PollerId THEN Period ELSE remaining
            /\ UNCHANGED <<statuses, disk>>
       ELSE /\ EnrichStep(fetched)
            /\ pub' = [pub EXCEPT
                   ![p].pc = "reg_lock",
                   ![p].msg.items = EnrichItems(fetched, statuses).items]
            /\ hist' = [hist EXCEPT !.seen = hist.seen \cup ItemIds(fetched)]
            /\ UNCHANGED remaining
    /\ UNCHANGED <<mode, diskOk, resp, boots, modeMu, rq>>
    /\ UNCHANGED <<clients, clientsMu, chans, hpc, ctxDone, lastOut, gpc, gmsg,
                   events, nconn, panicked>>
    /\ UNCHANGED consoleVars

\* the delete goroutine that is started next: the unborn one of least number
FreeDeleteProc ==
    CHOOSE q \in DeleteProcs :
        /\ pub[q].pc = "none"
        /\ \A r \in DeleteProcs : pub[r].pc = "none" => q[2] <= r[2]

\* GET /api/notes/delete?id=.., up to and including the mode check: the id
\* test, then the mode read under RLock and the test of the value read.  A
\* request that passes goes on to its provider call.
HandleDelete(id) ==
    /\ ~panicked
    /\ IF id = ""
       THEN /\ resp' = Response("delete", <<id>>, 400, "missing id", <<>>)
            /\ UNCHANGED pub
       ELSE IF mode # "MANUAL"
       THEN /\ resp' = Response("delete", <<id>>, 403, "delete requires MANUAL mode", <<>>)
            /\ UNCHANGED pub
       ELSE /\ \E p \in DeleteProcs : pub[p].pc = "none"
            /\ pub' = [pub EXCEPT ![FreeDeleteProc].pc = "del_call",
                                  ![FreeDeleteProc].arg = id]
            /\ UNCHANGED resp
    /\ UNCHANGED <<mode, statuses, disk, diskOk, boots, modeMu, rq>>
    /\ UNCHANGED <<clients, clientsMu, chans, hpc, ctxDone, lastOut, gpc, gmsg,
                   remaining, events, nconn, hist, panicked>>
    /\ UNCHANGED consoleVars

\* Variant of DeleteNote that starts the broadcastRegistry goroutine before
\* it looks at the provider's answer.
DeleteNote_BroadcastFirst(p, deleteOk) ==
    /\ ~panicked
    /\ pub[p].pc = "del_call"
    /\ resp' = IF deleteOk
               THEN Response("delete", <<pub[p].arg>>, 200, "", <<>>)
               ELSE Response("delete", <<pub[p].arg>>, 500, "delete failed", <<>>)
    /\ BeginPublish(p, "reg_fetch", SnapshotMsg(<<>>, 0, {}))
    /\ UNCHANGED <<mode, statuses, disk, diskOk, boots, modeMu, rq>>
    /\ UNCHANGED <<clients, clientsMu, chans, hpc, ctxDone, lastOut, gpc, gmsg,
                   remaining, events, nconn, panicked>>
    /\ UNCHANGED consoleVars

\* Variant of DeleteNote that prunes the overlay entry of the deleted note.
DeleteNote_Prune(p, deleteOk) ==
    /\ ~panicked
    /\ pub[p].pc = "del_call"
    /\ IF ~deleteOk
       THEN /\ resp' = Response("delete", <<pub[p].arg>>, 500, "delete failed", <<>>)
            /\ pub' = [pub EXCEPT ![p] = IdlePub]
            /\ UNCHANGED <<hist, statuses>>
       ELSE /\ resp' = Response("delete", <<pub[p].arg>>, 200, "", <<>>)
            /\ statuses' = [k \in DOMAIN statuses \ {pub[p].arg} |-> statuses[k]]
            /\ BeginPublish(p, "reg_fetch", SnapshotMsg(<<>>, 0, {}))
    /\ UNCHANGED <<mode, disk, diskOk, boots, modeMu, rq>>
    /\ UNCHANGED <<clients, clientsMu, chans, hpc, ctxDone, lastOut, gpc, gmsg,
                   remaining, events, nconn, panicked>>
    /\ UNCHANGED consoleVars

\* the rest of handleDelete: s.ws.DeleteNote, with deleteOk the provider's
\* answer; on success go s.broadcastRegistry() and the 200
DeleteNote(p, deleteOk) ==
    /\ ~panicked
    /\ pub[p].pc = "del_call"
    /\ IF ~deleteOk
       THEN /\ resp' = Response("delete", <<pub[p].arg>>, 500, "delete failed", <<>>)
            /\ pub' = [pub EXCEPT ![p] = IdlePub]
            /\ UNCHANGED hist
       ELSE /\ resp' = Response("delete", <<pub[p].arg>>, 200, "", <<>>)
            /\ BeginPublish(p, "reg_fetch", SnapshotMsg(<<>>, 0, {}))
    /\ UNCHANGED <<mode, statuses, disk, diskOk, boots, modeMu, rq>>
    /\ UNCHANGED <<clients, clientsMu, chans, hpc, ctxDone, lastOut, gpc, gmsg,
                   remaining, events, nconn, panicked>>
    /\ UNCHANGED consoleVars

\* GET /api/sheets/delete?id=..; deleteOk is the provider's answer to
\* DeleteSheet
HandleDeleteSheet(id, deleteOk) ==
    /\ ~panicked
    /\ IF id = ""
       THEN resp' = Response("deleteSheet", <<id>>, 400, "missing id", <<>>)
       ELSE IF ~deleteOk
       THEN resp' = Response("deleteSheet", <<id>>, 500, "delete failed", <<>>)
       ELSE resp' = Response("deleteSheet", <<id>>, 200, "", <<>>)
    /\ UNCHANGED <<mode, statuses, disk, diskOk, boots, modeMu, rq>>
    /\ UNCHANGED hubVars
    /\ UNCHANGED consoleVars

\* GET /api/docs/delete?id=..; deleteOk is the provider's answer to DeleteDoc
HandleDeleteDoc(id, deleteOk) ==
    /\ ~panicked
    /\ IF id = ""
       THEN resp' = Response("deleteDoc", <<id>>, 400, "missing id", <<>>)
       ELSE IF ~deleteOk
       THEN resp' = Response("deleteDoc", <<id>>, 500, "delete failed", <<>>)
       ELSE resp' = Response("deleteDoc", <<id>>, 200, "", <<>>)
    /\ UNCHANGED <<mode, statuses, disk, diskOk, boots, modeMu, rq>>
    /\ UNCHANGED hubVars
    /\ UNCHANGED consoleVars


(***************************************************************************)
(* handleMode and handleStatus step by step: the lock, the body, and       *)
(* saveState as MarshalIndent followed by os.WriteFile, which opens the    *)
(* file with O_TRUNC and then writes.                                      *)
(***************************************************************************)

\* GET /api/mode?set=newMode arrives: the handler is about to take the lock
ModeStart(t, newMode) ==
    /\ ~panicked
    /\ rq[t].pc = "idle"
    /\ rq' = [rq EXCEPT ![t] = [IdleReq EXCEPT !.op = "mode", !.pc = "lock",
                                               !.a = newMode]]
    /\ UNCHANGED <<mode, statuses, disk, diskOk, resp, boots, modeMu>>
    /\ UNCHANGED hubVars
    /\ UNCHANGED consoleVars

\* GET /api/status?id=..&status=.. arrives: the test of the parameters,
\* before the lock
StatusStart(t, id, status) ==
    /\ ~panicked
    /\ rq[t].pc = "idle"
    /\ IF id = "" \/ status = ""
       THEN /\ resp' = Response("status", <<id, status>>, 400, "missing id or status", <<>>)
            /\ UNCHANGED rq
       ELSE /\ rq' = [rq EXCEPT ![t] = [IdleReq EXCEPT !.op = "status",
                                          !.pc = "lock", !.a = id, !.b = status]]
            /\ UNCHANGED resp
    /\ UNCHANGED <<mode, statuses, disk, diskOk, boots, modeMu>>
    /\ UNCHANGED hubVars
    /\ UNCHANGED consoleVars

\* Variant of ReqLock that takes the lock shared (RLock), as handleDelete
\* and runPoller do, so that it does not wait for another holder.
ReqLock_Shared(t) ==
    /\ ~panicked
    /\ rq[t].pc = "lock"
    /\ modeMu' = modeMu \cup {t}
    /\ rq' = [rq EXCEPT ![t].pc = "body"]
    /\ UNCHANGED <<mode, statuses, disk, diskOk, resp, boots>>
    /\ UNCHANGED hubVars
    /\ UNCHANGED consoleVars

\* s.modeMu.Lock()
ReqLock(t) ==
    /\ ~panicked
    /\ rq[t].pc = "lock"
    /\ modeMu = {}
    /\ modeMu' = {t}
    /\ rq' = [rq EXCEPT ![t].pc = "body"]
    /\ UNCHANGED <<mode, statuses, disk, diskOk, resp, boots>>
    /\ UNCHANGED hubVars
    /\ UNCHANGED consoleVars

\* handleMode between Lock and saveState
ModeBody(t) ==
    /\ ~panicked
    /\ rq[t].op = "mode"
    /\ rq[t].pc = "body"
    /\ IF rq[t].a = ""
       THEN /\ resp' = Response("mode", <<rq[t].a>>, 200, mode, <<>>)
            /\ rq' = [rq EXCEPT ![t].pc = "unlock"]
            /\ UNCHANGED mode
       ELSE IF rq[t].a # "AUTO" /\ rq[t].a # "MANUAL"
       THEN /\ resp' = Response("mode", <<rq[t].a>>, 400, "invalid mode", <<>>)
            /\ rq' = [rq EXCEPT ![t].pc = "unlock"]
            /\ UNCHANGED mode
       ELSE /\ mode' = rq[t].a
            /\ rq' = [rq EXCEPT ![t].pc = "marshal"]
            /\ UNCHANGED resp
    /\ UNCHANGED <<statuses, disk, diskOk, boots, modeMu>>
    /\ UNCHANGED hubVars
    /\ UNCHANGED consoleVars

\* handleStatus between Lock and saveState
StatusBody(t) ==
    /\ ~panicked
    /\ rq[t].op = "status"
    /\ rq[t].pc = "body"
    /\ statuses' = MapPut(statuses, rq[t].a, rq[t].b)
    /\ rq' = [rq EXCEPT ![t].pc = "marshal"]
    /\ UNCHANGED <<mode, disk, diskOk, resp, boots, modeMu>>
    /\ UNCHANGED hubVars
    /\ UNCHANGED consoleVars

\* saveState: ps := persistentState{s.mode, s.statuses}; json.MarshalIndent
ReqMarshal(t) ==
    /\ ~panicked
    /\ rq[t].pc = "marshal"
    /\ rq' = [rq EXCEPT ![t].data = MarshalState(mode, statuses),
                        ![t].pc = "open"]
    /\ UNCHANGED <<mode, statuses, disk, diskOk, resp, boots, modeMu>>
    /\ UNCHANGED hubVars
    /\ UNCHANGED consoleVars

\* saveState: os.WriteFile opens the file, truncating it; when the open
\* fails the error is logged and saveState returns
ReqOpen(t) ==
    /\ ~panicked
    /\ rq[t].pc = "open"
    /\ IF diskOk
       THEN /\ disk' = CorruptFile
            /\ rq' = [rq EXCEPT ![t].pc = "write"]
       ELSE /\ disk' = disk
            /\ rq' = [rq EXCEPT ![t].pc = "respond"]
    /\ UNCHANGED <<mode, statuses, diskOk, resp, boots, modeMu>>
    /\ UNCHANGED hubVars
    /\ UNCHANGED consoleVars

\* saveState: os.WriteFile writes the data and closes; when the write fails
\* the file stays cut short
ReqWrite(t) ==
    /\ ~panicked
    /\ rq[t].pc = "write"
    /\ disk' = IF diskOk THEN rq[t].data ELSE disk
    /\ rq' = [rq EXCEPT ![t].pc = "respond"]
    /\ UNCHANGED <<mode, statuses, diskOk, resp, boots, modeMu>>
    /\ UNCHANGED hubVars
    /\ UNCHANGED consoleVars

\* the end of the handler: after saveState WriteHeader(200), and in either
\* case s.modeMu.Unlock() (handleMode's is deferred, handleStatus unlocks
\* right before WriteHeader)
ReqUnlock(t) ==
    /\ ~panicked
    /\ rq[t].pc \in {"respond", "unlock"}
    /\ modeMu' = modeMu \ {t}
    /\ rq' = [rq EXCEPT ![t] = IdleReq]
    /\ resp' = IF rq[t].pc = "respond"
               THEN Response(rq[t].op,
                             IF rq[t].op = "mode" THEN <<rq[t].a>>
                             ELSE <<rq[t].a, rq[t].b>>, 200, "", <<>>)
               ELSE resp
    /\ UNCHANGED <<mode, statuses, disk, diskOk, boots>>
    /\ UNCHANGED hubVars
    /\ UNCHANGED consoleVars


(***************************************************************************)
(* The readers of the mode, step by step (RLock, read, RUnlock).  The      *)
(* value read is the mode at the RUnlock: no writer runs while a read      *)
(* lock is held.                                                           *)
(***************************************************************************)

\* the publishers that hold modeMu shared
ReadHolders == {p \in Pubs : pub[p].pc \in {"rd", "del_rd"}}

\* runPoller, a ticker firing: s.modeMu.RLock()
PollerRLock ==
    /\ ~panicked
    /\ pub[PollerId].pc = "wait"
    /\ events < MaxEvents
    /\ modeMu \subseteq ReadHolders
    /\ modeMu' = modeMu \cup {PollerId}
    /\ pub' = [pub EXCEPT ![PollerId].pc = "rd"]
    /\ UNCHANGED <<mode, statuses, disk, diskOk, resp, boots, rq>>
    /\ UNCHANGED <<clients, clientsMu, chans, hpc, ctxDone, lastOut, gpc, gmsg,
                   remaining, events, nconn, hist, panicked>>
    /\ UNCHANGED consoleVars

\* runPoller: mode := s.mode; s.modeMu.RUnlock(); then the branch on the
\* value read, as in Tick
PollerRUnlock ==
    /\ ~panicked
    /\ pub[PollerId].pc = "rd"
    /\ modeMu' = modeMu \ {PollerId}
    /\ events' = events + 1
    /\ IF mode = "AUTO"
       THEN /\ remaining' = remaining - 1
            /\ BeginPublish(PollerId, "tick_lock", TickMsg(remaining - 1, 0, {}))
       ELSE /\ remaining' = Period
            /\ hist' = [hist EXCEPT !.sawManual = TRUE]
            /\ pub' = [pub EXCEPT ![PollerId].pc = "wait"]
    /\ UNCHANGED <<mode, statuses, disk, diskOk, resp, boots, rq>>
    /\ UNCHANGED <<clients, clientsMu, chans, hpc, ctxDone, lastOut, gpc, gmsg,
                   nconn, panicked>>
    /\ UNCHANGED consoleVars

\* handleDelete: the id test, then s.modeMu.RLock()
DeleteRLock(id) ==
    /\ ~panicked
    /\ IF id = ""
       THEN /\ resp' = Response("delete", <<id>>, 400, "missing id", <<>>)
            /\ UNCHANGED <<pub, modeMu>>
       ELSE /\ \E p \in DeleteProcs : pub[p].pc = "none"
            /\ modeMu \subseteq ReadHolders
            /\ modeMu' = modeMu \cup {FreeDeleteProc}
            /\ pub' = [pub EXCEPT ![FreeDeleteProc].pc = "del_rd",
                                  ![FreeDeleteProc].arg = id]
            /\ UNCHANGED resp
    /\ UNCHANGED <<mode, statuses, disk, diskOk, boots, rq>>
    /\ UNCHANGED <<clients, clientsMu, chans, hpc, ctxDone, lastOut, gpc, gmsg,
                   remaining, events, nconn, hist, panicked>>
    /\ UNCHANGED consoleVars

\* handleDelete: currentMode := s.mode; s.modeMu.RUnlock(); the test of the
\* value read
DeleteRUnlock(p) ==
    /\ ~panicked
    /\ pub[p].pc = "del_rd"
    /\ modeMu' = modeMu \ {p}
    /\ IF mode # "MANUAL"
       THEN /\ resp' = Response("delete", <<pub[p].arg>>, 403,
                                "delete requires MANUAL mode", <<>>)
            /\ pub' = [pub EXCEPT ![p] = IdlePub]
       ELSE /\ pub' = [pub EXCEPT ![p].pc = "del_call"]
            /\ UNCHANGED resp
    /\ UNCHANGED <<mode, statuses, disk, diskOk, boots, rq>>
    /\ UNCHANGED <<clients, clientsMu, chans, hpc, ctxDone, lastOut, gpc, gmsg,
                   remaining, events, nconn, hist, panicked>>
    /\ UNCHANGED consoleVars

(***************************************************************************)
(* broadcastRegistry step by step, as far as its hub lock: the provider    *)
(* fetch, then enrichItems under modeMu.                                   *)
(***************************************************************************)

\* rawItems, err := s.ws.ListRegistryItems()
FetchOnly(p, fetchOk, fetched) ==
    /\ ~panicked
    /\ pub[p].pc = "reg_fetch"
    /\ IF ~fetchOk
       THEN /\ pub' = [pub EXCEPT ![p].pc = AfterRegistry(p)]
            /\ hist' = [hist EXCEPT
                   !.completed = hist.completed \cup {pub[p].msg.id},
                   !.failed = hist.failed \cup {pub[p].msg.id}]
            /\ remaining' = IF p = PollerId THEN Period ELSE remaining
       ELSE /\ pub' = [pub EXCEPT ![p].pc = "enr_lock",
                                  ![p].msg.items = fetched]
            /\ hist' = [hist EXCEPT !.seen = hist.seen \cup ItemIds(fetched)]
            /\ UNCHANGED remaining
    /\ UNCHANGED srvVars
    /\ UNCHANGED <<clients, clientsMu, chans, hpc, ctxDone, lastOut, gpc, gmsg,
                   events, nconn, panicked>>
    /\ UNCHANGED consoleVars

\* enrichItems: s.modeMu.Lock()
EnrichLock(p) ==
    /\ ~panicked
    /\ pub[p].pc = "enr_lock"
    /\ modeMu = {}
    /\ modeMu' = {p}
    /\ pub' = [pub EXCEPT ![p].pc = "enr_body"]
    /\ UNCHANGED <<mode, statuses, disk, diskOk, resp, boots, rq>>
    /\ UNCHANGED <<clients, clientsMu, chans, hpc, ctxDone, lastOut, gpc, gmsg,
                   remaining, events, nconn, hist, panicked>>
    /\ UNCHANGED consoleVars

\* Variant of EnrichBody whose loop gives every keep record the default
\* label, whether or not it has an entry.
EnrichBody_Overwrite(p) ==
    /\ ~panicked
    /\ pub[p].pc = "enr_body"
    /\ LET r == EnrichItems(pub[p].msg.items, EmptyMap)
           st == [id \in DOMAIN statuses \cup DOMAIN r.statuses |->
                     IF id \in DOMAIN r.statuses THEN "Keep" ELSE statuses[id]] IN
       /\ statuses' = st
       /\ disk' \in SaveState(mode, st, disk, diskOk)
       /\ pub' = [pub EXCEPT ![p].pc = "enr_unlock", ![p].msg.items = r.items]
    /\ UNCHANGED <<mode, diskOk, resp, boots, modeMu, rq>>
    /\ UNCHANGED <<clients, clientsMu, chans, hpc, ctxDone, lastOut, gpc, gmsg,
                   remaining, events, nconn, hist, panicked>>
    /\ UNCHANGED consoleVars

\* enrichItems: the loop and the conditional saveState
EnrichBody(p) ==
    /\ ~panicked
    /\ pub[p].pc = "enr_body"
    /\ EnrichStep(pub[p].msg.items)
    /\ pub' = [pub EXCEPT
           ![p].pc = "enr_unlock",
           ![p].msg.items = EnrichItems(pub[p].msg.items, statuses).items]
    /\ UNCHANGED <<mode, diskOk, resp, boots, modeMu, rq>>
    /\ UNCHANGED <<clients, clientsMu, chans, hpc, ctxDone, lastOut, gpc, gmsg,
                   remaining, events, nconn, hist, panicked>>
    /\ UNCHANGED consoleVars

\* Variant of EnrichUnlock without the deferred s.modeMu.Unlock():
\* broadcastRegistry goes on to the hub lock still holding modeMu.
EnrichUnlock_KeepLock(p) ==
    /\ ~panicked
    /\ pub[p].pc = "enr_unlock"
    /\ modeMu' = modeMu
    /\ pub' = [pub EXCEPT ![p].pc = "reg_lock"]
    /\ UNCHANGED <<mode, statuses, disk, diskOk, resp, boots, rq>>
    /\ UNCHANGED <<clients, clientsMu, chans, hpc, ctxDone, lastOut, gpc, gmsg,
                   remaining, events, nconn, hist, panicked>>
    /\ UNCHANGED consoleVars

\* enrichItems returns: the deferred s.modeMu.Unlock(); json.Marshal
EnrichUnlock(p) ==
    /\ ~panicked
    /\ pub[p].pc = "enr_unlock"
    /\ modeMu' = modeMu \ {p}
    /\ pub' = [pub EXCEPT ![p].pc = "reg_lock"]
    /\ UNCHANGED <<mode, statuses, disk, diskOk, resp, boots, rq>>
    /\ UNCHANGED <<clients, clientsMu, chans, hpc, ctxDone, lastOut, gpc, gmsg,
                   remaining, events, nconn, hist, panicked>>
    /\ UNCHANGED consoleVars


(***************************************************************************)
(* handleEvents: one SSE connection.                                       *)
(***************************************************************************)

\* make the channel, register it under clientsMu, start the goroutine that
\* sends the initial state
Connect ==
    /\ ~panicked
    /\ nconn < MaxConns
    /\ events < MaxEvents
    /\ events' = events + 1
    /\ clientsMu = {}
    /\ LET c == nconn + 1 IN
       /\ nconn' = c
       /\ chans' = [chans EXCEPT ![c] = NewChan]
       /\ clients' = clients \cup {c}
       /\ hpc' = [hpc EXCEPT ![c] = "loop"]
       /\ gpc' = [gpc EXCEPT ![c] = "fetch"]
       /\ hist' = [hist EXCEPT !.born[c] = hist.completed]
    /\ UNCHANGED srvVars
    /\ UNCHANGED <<clientsMu, ctxDone, lastOut, gmsg, pub, remaining,
                   panicked>>
    /\ UNCHANGED consoleVars

\* the goroutine: ListRegistryItems, and on success enrichItems and Marshal
InitFetch(c, fetchOk, fetched) ==
    /\ ~panicked
    /\ gpc[c] = "fetch"
    /\ IF ~fetchOk
       THEN /\ gpc' = [gpc EXCEPT ![c] = "done"]
            /\ UNCHANGED <<statuses, disk, gmsg, hist>>
       ELSE /\ EnrichStep(fetched)
            /\ gmsg' = [gmsg EXCEPT ![c] =
                   SnapshotMsg(EnrichItems(fetched, statuses).items, 0, {})]
            /\ gpc' = [gpc EXCEPT ![c] = "send"]
            /\ hist' = [hist EXCEPT !.seen = hist.seen \cup ItemIds(fetched)]
    /\ UNCHANGED <<mode, diskOk, resp, boots, modeMu, rq>>
    /\ UNCHANGED <<clients, clientsMu, chans, hpc, ctxDone, lastOut, pub,
                   remaining, events, nconn, panicked>>
    /\ UNCHANGED consoleVars

\* the goroutine: msgChan <- SSEMessage{Data: data}, a blocking send; on a
\* closed channel it panics
InitSend(c) ==
    /\ ~panicked
    /\ gpc[c] = "send"
    /\ IF chans[c].state = "closed"
       THEN /\ panicked' = TRUE
            /\ UNCHANGED <<chans, gpc>>
       ELSE /\ ~IsFull(chans[c])
            /\ chans' = [chans EXCEPT ![c] = Enqueue(chans[c], gmsg[c])]
            /\ gpc' = [gpc EXCEPT ![c] = "done"]
            /\ UNCHANGED panicked
    /\ UNCHANGED srvVars
    /\ UNCHANGED <<clients, clientsMu, hpc, ctxDone, lastOut, gmsg, pub,
                   remaining, events, nconn, hist>>
    /\ UNCHANGED consoleVars

\* Variant of Receive that takes the newest message of the mailbox.
Receive_Newest(c) ==
    /\ ~panicked
    /\ hpc[c] = "loop"
    /\ chans[c].buf # <<>>
    /\ lastOut' = [lastOut EXCEPT ![c] = chans[c].buf[Len(chans[c].buf)]]
    /\ chans' = [chans EXCEPT ![c].buf =
                    SubSeq(chans[c].buf, 1, Len(chans[c].buf) - 1)]
    /\ UNCHANGED srvVars
    /\ UNCHANGED <<clients, clientsMu, hpc, ctxDone, gpc, gmsg, pub,
                   remaining, events, nconn, hist, panicked>>
    /\ UNCHANGED consoleVars

\* the event loop takes case msg := <-msgChan and writes msg to the stream
Receive(c) ==
    /\ ~panicked
    /\ hpc[c] = "loop"
    /\ chans[c].buf # <<>>
    /\ lastOut' = [lastOut EXCEPT ![c] = Head(chans[c].buf)]
    /\ chans' = [chans EXCEPT ![c].buf = Tail(chans[c].buf)]
    /\ UNCHANGED srvVars
    /\ UNCHANGED <<clients, clientsMu, hpc, ctxDone, gpc, gmsg, pub,
                   remaining, events, nconn, hist, panicked>>
    /\ UNCHANGED consoleVars

\* the client goes away: the request context is canceled
CtxCancel(c) ==
    /\ ~panicked
    /\ hpc[c] = "loop"
    /\ ~ctxDone[c]
    /\ events < MaxEvents
    /\ events' = events + 1
    /\ ctxDone' = [ctxDone EXCEPT ![c] = TRUE]
    /\ UNCHANGED srvVars
    /\ UNCHANGED <<clients, clientsMu, chans, hpc, lastOut, gpc, gmsg, pub,
                   remaining, nconn, hist, panicked>>
    /\ UNCHANGED consoleVars

\* Variant of Unregister whose cleanup omits delete(s.clients, msgChan).
Unregister_NoDelete(c) ==
    /\ ~panicked
    /\ hpc[c] = "loop"
    /\ ctxDone[c]
    /\ clientsMu = {}
    /\ clients' = clients
    /\ hist' = [hist EXCEPT !.gone = hist.gone \cup {c}]
    /\ hpc' = [hpc EXCEPT ![c] = "close"]
    /\ UNCHANGED srvVars
    /\ UNCHANGED <<clientsMu, chans, ctxDone, lastOut, gpc, gmsg, pub,
                   remaining, events, nconn, panicked>>
    /\ UNCHANGED consoleVars

\* the event loop takes case <-r.Context().Done() and returns; the deferred
\* cleanup, first half: delete(s.clients, msgChan) under clientsMu.  (Leaving
\* the loop changes nothing another goroutine can see, so it is one step
\* with the delete.)
Unregister(c) ==
    /\ ~panicked
    /\ hpc[c] = "loop"
    /\ ctxDone[c]
    /\ clientsMu = {}
    /\ clients' = clients \ {c}
    /\ hist' = [hist EXCEPT !.gone = hist.gone \cup {c}]
    /\ hpc' = [hpc EXCEPT ![c] = "close"]
    /\ UNCHANGED srvVars
    /\ UNCHANGED <<clientsMu, chans, ctxDone, lastOut, gpc, gmsg, pub,
                   remaining, events, nconn, panicked>>
    /\ UNCHANGED consoleVars

\* Variant of Close whose cleanup may run again for a connection that is
\* done; close of a closed channel panics.
Close_Repeatable(c) ==
    /\ ~panicked
    /\ hpc[c] \in {"close", "done"}
    /\ chans' = [chans EXCEPT ![c].state = "closed"]
    /\ hpc' = [hpc EXCEPT ![c] = "done"]
    /\ panicked' = (chans[c].state = "closed")
    /\ UNCHANGED srvVars
    /\ UNCHANGED <<clients, clientsMu, ctxDone, lastOut, gpc, gmsg, pub,
                   remaining, events, nconn, hist>>
    /\ UNCHANGED consoleVars

\* the deferred cleanup, second half: close(msgChan)
Close(c) ==
    /\ ~panicked
    /\ hpc[c] = "close"
    /\ chans' = [chans EXCEPT ![c].state = "closed"]
    /\ hpc' = [hpc EXCEPT ![c] = "done"]
    /\ UNCHANGED srvVars
    /\ UNCHANGED <<clients, clientsMu, ctxDone, lastOut, gpc, gmsg, pub,
                   remaining, events, nconn, hist, panicked>>
    /\ UNCHANGED consoleVars

(***************************************************************************)
(* Specifications.                                                         *)
(***************************************************************************)

\* The mode, the overlay and the state file under whole request handlers
\* and restarts, from any state file.
Next ==
    \/ \E m \in ModeInputs : HandleMode(m)
    \/ \E id \in StatusIdInputs, st \in StatusInputs : HandleStatus(id, st)
    \/ \E ok \in BOOLEAN, l \in ProviderLists : HandleRegistry(ok, l)
    \/ Restart

Spec == Init /\ [][Next]_vars

\* The destructive operations: the three delete handlers, mode changes, and
\* the broadcastRegistry goroutines handleDelete starts, from any state
\* file.  Nobody is connected and the poller has yet to tick.
NextDelete ==
    \/ \E m \in Modes : HandleMode(m)
    \/ \E id \in {"", KeepId} : HandleDelete(id)
    \/ \E p \in DeleteProcs, ok \in BOOLEAN : DeleteNote(p, ok)
    \/ \E id \in {"", SheetId}, ok \in BOOLEAN : HandleDeleteSheet(id, ok)
    \/ \E id \in {"", DocId}, ok \in BOOLEAN : HandleDeleteDoc(id, ok)
    \/ \E p \in DeleteProcs, ok \in BOOLEAN, l \in HubProviderLists :
           FetchRegistry(p, ok, l)
    \/ \E p \in DeleteProcs : TakeLock(p)
    \/ \E p \in DeleteProcs : Unlock(p)

SpecDelete == Init /\ [][NextDelete]_vars

\* The poller under mode changes, from a server started without a state
\* file, over MaxTicks ticker firings.  Nobody is connected.
InitPoll ==
    /\ disk = NoFile
    /\ diskOk = TRUE
    /\ mode = NewServer(disk).mode
    /\ statuses = NewServer(disk).statuses
    /\ resp = NoResponse
    /\ boots = 0
    /\ modeMu = {}
    /\ rq = [t \in Reqs |-> IdleReq]
    /\ hist = NoHist
    /\ HubStart
    /\ ConsoleStart

NextPoll ==
    \/ Tick(MaxTicks)
    \/ TakeLock(PollerId)
    \/ Unlock(PollerId)
    \/ \E ok \in BOOLEAN, l \in HubProviderLists : FetchRegistry(PollerId, ok, l)
    \/ \E m \in Modes : HandleMode(m)

SpecPoll == InitPoll /\ [][NextPoll]_vars

\* The storage starts or stops failing (os.WriteFile returns an error, before
\* or after it truncated the file).
DiskFault ==
    /\ diskOk' = ~diskOk
    /\ UNCHANGED <<mode, statuses, disk, resp, boots, modeMu, rq>>
    /\ UNCHANGED hubVars
    /\ UNCHANGED consoleVars

\* The handlers on the mode and the overlay over a storage that may fail,
\* from a server started without a state file.
NextFault ==
    \/ DiskFault
    \/ \E m \in {"", "AUTO", "MANUAL", "BOGUS"} : HandleMode(m)
    \/ \E id \in {"", KeepId}, st \in {"", "Execute"} : HandleStatus(id, st)
    \/ \E ok \in BOOLEAN, l \in FaultLists : HandleRegistry(ok, l)
    \/ Restart

SpecFault == InitPoll /\ [][NextFault]_vars


\* Concurrent requests at the granularity of the locks: mode-sets and
\* status-sets in steps, note deletes, and the broadcastRegistry goroutines
\* the deletes start, in steps, up to their publish (nobody is connected).
\* A step that reads the mode under RLock waits for modeMu to be free.
NextLock ==
    \/ \E t \in Reqs, m \in {"", "AUTO", "MANUAL", "BOGUS"} : ModeStart(t, m)
    \/ \E t \in Reqs, id \in {"", KeepId}, st \in {"", "Execute"} :
           StatusStart(t, id, st)
    \/ \E t \in Reqs : ReqLock(t)
    \/ \E t \in Reqs : ModeBody(t)
    \/ \E t \in Reqs : StatusBody(t)
    \/ \E t \in Reqs : ReqMarshal(t)
    \/ \E t \in Reqs : ReqOpen(t)
    \/ \E t \in Reqs : ReqWrite(t)
    \/ \E t \in Reqs : ReqUnlock(t)
    \/ (modeMu = {} /\ HandleDelete(KeepId))
    \/ \E p \in DeleteProcs : DeleteNote(p, TRUE)
    \/ \E p \in DeleteProcs, ok \in BOOLEAN, l \in HubProviderLists :
           FetchOnly(p, ok, l)
    \/ \E p \in DeleteProcs : EnrichLock(p)
    \/ \E p \in DeleteProcs : EnrichBody(p)
    \/ \E p \in DeleteProcs : EnrichUnlock(p)
    \/ \E p \in DeleteProcs : TakeLock(p)
    \/ \E p \in DeleteProcs : Unlock(p)

SpecLock == InitPoll /\ [][NextLock]_vars

\* Every task that takes a lock, together: the poller, mode-sets and note
\* deletes in steps, the broadcastRegistry goroutines in steps through both
\* locks, and SSE connections with their initial-snapshot goroutines (whose
\* enrichItems call is one step, taken when modeMu is free).  A client
\* connects when no other is subscribed.
NextAll ==
    \/ PollerTick
    \/ \E t \in Reqs, m \in Modes : ModeStart(t, m)
    \/ \E t \in Reqs : ReqLock(t)
    \/ \E t \in Reqs : ModeBody(t)
    \/ \E t \in Reqs : ReqMarshal(t)
    \/ \E t \in Reqs : ReqOpen(t)
    \/ \E t \in Reqs : ReqWrite(t)
    \/ \E t \in Reqs : ReqUnlock(t)
    \/ (modeMu = {} /\ HandleDelete(KeepId))
    \/ \E p \in DeleteProcs : DeleteNote(p, TRUE)
    \/ \E p \in Pubs, ok \in BOOLEAN, l \in HubProviderLists : FetchOnly(p, ok, l)
    \/ \E p \in Pubs : EnrichLock(p)
    \/ \E p \in Pubs : EnrichBody(p)
    \/ \E p \in Pubs : EnrichUnlock(p)
    \/ \E p \in Pubs : TakeLock(p)
    \/ \E p \in Pubs, c \in Conns : TrySend(p, c)
    \/ \E p \in Pubs : Unlock(p)
    \/ (clients = {} /\ Connect)
    \/ \E c \in Conns, ok \in BOOLEAN, l \in HubProviderLists :
           (~ok \/ modeMu = {}) /\ InitFetch(c, ok, l)
    \/ \E c \in Conns : InitSend(c)
    \/ \E c \in Conns : Receive(c)
    \/ \E c \in Conns : CtxCancel(c)
    \/ \E c \in Conns : Unregister(c)
    \/ \E c \in Conns : Close(c)

SpecAll == InitPoll /\ [][NextAll]_vars

\* The takers of modeMu at the granularity of the lock: mode reads and
\* mode-sets in steps, the poller's read and the note delete's read under
\* RLock, and the poller's tick publish (nobody is connected; the provider
\* refuses the delete).
NextRead ==
    \/ \E t \in Reqs, m \in {"", "AUTO", "MANUAL"} : ModeStart(t, m)
    \/ \E t \in Reqs : ReqLock(t)
    \/ \E t \in Reqs : ModeBody(t)
    \/ \E t \in Reqs : ReqMarshal(t)
    \/ \E t \in Reqs : ReqOpen(t)
    \/ \E t \in Reqs : ReqWrite(t)
    \/ \E t \in Reqs : ReqUnlock(t)
    \/ PollerRLock
    \/ PollerRUnlock
    \/ TakeLock(PollerId)
    \/ Unlock(PollerId)
    \/ \E id \in {"", KeepId} : DeleteRLock(id)
    \/ \E p \in DeleteProcs : DeleteRUnlock(p)
    \/ \E p \in DeleteProcs : DeleteNote(p, FALSE)

SpecRead == InitPoll /\ [][NextRead]_vars

\* The same, with the process killed and started again at any point.
NextCrash ==
    \/ NextLock
    \/ Restart

SpecCrash == InitPoll /\ [][NextCrash]_vars

\* The hub.  The countdown starts StartRemaining ticks before a snapshot;
\* either nobody is connected, or one connection whose initial fetch failed
\* and whose handler has not yet run holds the last MailboxCap - 1 ticks.
StartRemaining == 2

PrefilledChan ==
    [state |-> "open",
     buf |-> [i \in 1..(MailboxCap - 1) |->
                 [TickMsg(StartRemaining + MailboxCap - 1 - i, i, {})
                     EXCEPT !.seq = i]],
     sent |-> MailboxCap - 1]

InitHub ==
    /\ disk = NoFile
    /\ diskOk = TRUE
    /\ mode = "AUTO"
    /\ statuses = EmptyMap
    /\ resp = NoResponse
    /\ boots = 0
    /\ modeMu = {}
    /\ rq = [t \in Reqs |-> IdleReq]
    /\ clientsMu = {}
    /\ ctxDone = [c \in Conns |-> FALSE]
    /\ lastOut = [c \in Conns |-> NoMsg]
    /\ gmsg = [c \in Conns |-> NoMsg]
    /\ pub = StartPubs
    /\ remaining = StartRemaining
    /\ events = 0
    /\ panicked = FALSE
    /\ \/ /\ clients = {}
          /\ chans = [c \in Conns |-> NoChan]
          /\ hpc = [c \in Conns |-> "none"]
          /\ gpc = [c \in Conns |-> "none"]
          /\ nconn = 0
          /\ hist = NoHist
       \/ /\ clients = {1}
          /\ chans = [c \in Conns |-> IF c = 1 THEN PrefilledChan ELSE NoChan]
          /\ hpc = [c \in Conns |-> IF c = 1 THEN "loop" ELSE "none"]
          /\ gpc = [c \in Conns |-> IF c = 1 THEN "done" ELSE "none"]
          /\ nconn = 1
          /\ hist = [NoHist EXCEPT !.nextId = MailboxCap,
                                   !.completed = 1..(MailboxCap - 1)]
    /\ ConsoleStart

NextHub ==
    \/ PollerTick
    \/ \E p \in Pubs : TakeLock(p)
    \/ \E p \in Pubs, c \in Conns : TrySend(p, c)
    \/ \E p \in Pubs : Unlock(p)
    \/ \E p \in Pubs, ok \in BOOLEAN, l \in HubProviderLists :
           FetchRegistry(p, ok, l)
    \/ Connect
    \/ \E c \in Conns, ok \in BOOLEAN, l \in HubProviderLists :
           InitFetch(c, ok, l)
    \/ \E c \in Conns : InitSend(c)
    \/ \E c \in Conns : Receive(c)
    \/ \E c \in Conns : CtxCancel(c)
    \/ \E c \in Conns : Unregister(c)
    \/ \E c \in Conns : Close(c)

SpecHub == InitHub /\ [][NextHub]_vars

\* SpecHub with the scheduling the Go runtime and the provider give: a
\* goroutine that can take its next step takes it, a lock that is free is
\* granted, a provider call returns.  Ticker firings, connections and
\* disconnections are the environment's and carry no fairness.
HubFairness ==
    /\ \A p \in Pubs :
           /\ WF_vars(TakeLock(p))
           /\ WF_vars(\E c \in Conns : TrySend(p, c))
           /\ WF_vars(Unlock(p))
           /\ WF_vars(\E ok \in BOOLEAN, l \in HubProviderLists :
                          FetchRegistry(p, ok, l))
    /\ \A c \in Conns :
           /\ WF_vars(\E ok \in BOOLEAN, l \in HubProviderLists :
                          InitFetch(c, ok, l))
           /\ WF_vars(InitSend(c))
           /\ WF_vars(Unregister(c))
           /\ WF_vars(Close(c))

SpecHubFair == InitHub /\ [][NextHub]_vars /\ HubFairness

\* Note deletes with subscribers: mode-sets, the delete handler and its
\* provider call, the broadcastRegistry goroutine it starts, and SSE
\* connections that receive.
NextDeleteHub ==
    \/ \E m \in Modes : HandleMode(m)
    \/ HandleDelete(KeepId)
    \/ \E p \in DeleteProcs, ok \in BOOLEAN : DeleteNote(p, ok)
    \/ \E p \in DeleteProcs, ok \in BOOLEAN, l \in HubProviderLists :
           FetchRegistry(p, ok, l)
    \/ \E p \in DeleteProcs : TakeLock(p)
    \/ \E p \in DeleteProcs, c \in Conns : TrySend(p, c)
    \/ \E p \in DeleteProcs : Unlock(p)
    \/ Connect
    \/ \E c \in Conns, ok \in BOOLEAN, l \in HubProviderLists :
           InitFetch(c, ok, l)
    \/ \E c \in Conns : InitSend(c)
    \/ \E c \in Conns : Receive(c)

SpecDeleteHub == InitPoll /\ [][NextDeleteHub]_vars

\* The same with a status-set for the note: two snapshot producers (the
\* goroutine of a delete, the initial-snapshot goroutine of a connection)
\* around a change of the overlay.
NextSnapshots ==
    \/ NextDeleteHub
    \/ HandleStatus(KeepId, "Execute")

SpecSnapshots == InitPoll /\ [][NextSnapshots]_vars

\* Every operation that reads or writes the overlay, as whole handlers, in
\* one process: mode-sets, status-sets, listings, the three deletes, the
\* poller and the broadcastRegistry calls (nobody is connected).
NextOverlay ==
    \/ \E m \in Modes : HandleMode(m)
    \/ \E id \in {KeepId, DocId} : HandleStatus(id, "Execute")
    \/ \E ok \in BOOLEAN, l \in ProviderLists : HandleRegistry(ok, l)
    \/ HandleDelete(KeepId)
    \/ \E p \in DeleteProcs, ok \in BOOLEAN : DeleteNote(p, ok)
    \/ \E ok \in BOOLEAN : HandleDeleteSheet(SheetId, ok)
    \/ \E ok \in BOOLEAN : HandleDeleteDoc(DocId, ok)
    \/ PollerTick
    \/ \E p \in Pubs, ok \in BOOLEAN, l \in ProviderLists : FetchRegistry(p, ok, l)
    \/ \E p \in Pubs : TakeLock(p)
    \/ \E p \in Pubs : Unlock(p)

SpecOverlay == InitPoll /\ [][NextOverlay]_vars

\* The hub as in SpecHub together with the operator's mutations: mode-sets
\* and status-sets as whole handlers.
NextNotify ==
    \/ NextHub
    \/ \E m \in Modes : HandleMode(m)
    \/ \E st \in {"Execute"} : HandleStatus(KeepId, st)

SpecNotify == InitHub /\ [][NextNotify]_vars


(***************************************************************************)
(* Properties of the broadcast hub (checked under SpecHub).                *)
(***************************************************************************)
Iterating(p) == pub[p].pc \in {"tick_iter", "reg_iter"}

\* the hub messages (publish id > 0) connection c has been handed so far and
\* still holds or has just written
HeldMsgs(c) ==
    {chans[c].buf[i] : i \in 1..Len(chans[c].buf)} \cup {lastOut[c]}

HasMsg(c, id) == \E i \in 1..Len(chans[c].buf) : chans[c].buf[i].id = id

\* While the process is alive, a publisher inside its range loop can always
\* take its next step: the select on any channel it has yet to visit,
\* whatever that mailbox holds, and the Unlock once none is left.
C1_StepEnabled ==
    \A p \in Pubs :
        (~panicked /\ Iterating(p)) =>
            /\ \A c \in pub[p].todo : ENABLED TrySend(p, c)
            /\ (pub[p].todo = {}) => ENABLED Unlock(p)

\* A select on a full mailbox leaves that mailbox as it was.
C1_FullUnchanged ==
    \A p \in Pubs : \A c \in Conns :
        (TrySend(p, c) /\ IsFull(chans[c])) => chans'[c] = chans[c]

\* C1: broadcastTick and broadcastRegistry never block on a subscriber: for
\* any registered subscribers and any mailbox fill levels, each step of the
\* publish call is enabled (so the call completes), and a full mailbox is
\* left unchanged, the message being dropped for that subscriber only.
C1_PublishNeverBlocks == [](C1_StepEnabled) /\ [][C1_FullUnchanged]_vars

\* A publisher has passed a registered subscriber whose mailbox is full and
\* does not hold the publisher's message.
C1_Witness ==
    \E p \in Pubs : \E c \in clients :
        /\ Iterating(p)
        /\ c \notin pub[p].todo
        /\ Len(chans[c].buf) = MailboxCap
        /\ ~HasMsg(c, pub[p].msg.id)

\* C2: no sender ever attempts a send on a mailbox that has been closed, so
\* no panic state is reachable.
C2_NoSendOnClosed == ~panicked

\* C3: a published message is enqueued for every subscriber that was
\* registered before the publish call began, is still registered when the
\* hub iterates, and has room at that moment: the range loop starts on all
\* of them, each select on a mailbox with room appends the message to it,
\* and the loop ends only when every one of them has been visited.
C3_PublishReachesRegistered ==
    [][\A p \in Pubs :
        /\ (~Iterating(p) /\ Iterating(p)') =>
               (pub[p].begin \cap clients) \subseteq pub'[p].todo
        /\ (Iterating(p) /\ Iterating(p)') =>
               \A c \in pub[p].todo \ pub'[p].todo :
                   ~IsFull(chans[c]) =>
                       /\ Len(chans'[c].buf) = Len(chans[c].buf) + 1
                       /\ chans'[c].buf[Len(chans'[c].buf)].id = pub[p].msg.id
                       /\ chans'[c].buf[Len(chans'[c].buf)].event = pub[p].msg.event
                       /\ chans'[c].buf[Len(chans'[c].buf)].items = pub[p].msg.items
                       /\ chans'[c].buf[Len(chans'[c].buf)].count = pub[p].msg.count
        /\ (Iterating(p) /\ ~Iterating(p)') => pub[p].todo = {}
      ]_vars

\* A publisher has visited two subscribers that were registered when its call
\* began: one with a full mailbox, which lacks the message, and one that
\* holds it.
C3_Witness ==
    \E p \in Pubs : \E c1, c2 \in pub[p].begin \cap clients :
        /\ Iterating(p)
        /\ pub[p].todo = {}
        /\ Len(chans[c1].buf) = MailboxCap
        /\ ~HasMsg(c1, pub[p].msg.id)
        /\ HasMsg(c2, pub[p].msg.id)

\* C4: no mailbox ever receives a message whose publish call completed
\* before its subscriber registered, nor one whose publish call began after
\* its subscriber's delete from the registry completed.
C4_OnlyWhileSubscribed ==
    \A c \in Conns : \A m \in HeldMsgs(c) :
        m.id # 0 => (m.id \notin hist.born[c] /\ c \notin m.excl)

\* A subscriber that registered after some publish call had completed holds
\* a message of a publish call that began after another subscriber had been
\* deregistered.
C4_Witness ==
    \E c \in Conns : \E m \in HeldMsgs(c) :
        /\ m.id # 0
        /\ hist.born[c] # {}
        /\ m.excl # {}

\* C5: the messages written to one connection appear in the order in which
\* they were enqueued in its mailbox: each message written was enqueued
\* after the message written before it.
C5_FifoPerSubscriber ==
    [][\A c \in Conns :
          lastOut'[c] # lastOut[c] => lastOut'[c].seq > lastOut[c].seq]_vars

\* A connection has written a message while a later one waited in its
\* mailbox behind it.
C5_Witness ==
    \E c \in Conns :
        /\ lastOut[c].seq >= 2
        /\ Len(chans[c].buf) >= 1
        /\ chans[c].buf[1].seq > lastOut[c].seq


(***************************************************************************)
(* Properties of the mode and the state file (checked under Spec).         *)
(***************************************************************************)
LastRequest(handler, req, code) ==
    resp.handler = handler /\ resp.req = req /\ resp.code = code

\* C6: after every mode-set request with a valid value the mode is that
\* value and the persisted document carries it, and a mode read returns the
\* current mode.
C6_ModeSetTakesEffect ==
    /\ \A v \in Modes :
           LastRequest("mode", <<v>>, 200) =>
               /\ mode = v
               /\ disk.kind = "doc"
               /\ disk.mode = v
    /\ LastRequest("mode", <<"">>, 200) => resp.text = mode

\* After a restart and a status-set, the last request set the mode to
\* MANUAL, and the mode and the document say MANUAL.
C6_Witness ==
    /\ LastRequest("mode", <<"MANUAL">>, 200)
    /\ mode = "MANUAL"
    /\ disk.mode = "MANUAL"
    /\ disk.statuses # EmptyMap
    /\ boots > 0

\* C7: a mode-set request with a value other than AUTO or MANUAL is answered
\* with a validation failure (400) and leaves the mode, the overlay and the
\* persisted document unchanged.
C7_InvalidModeRejected ==
    [][\A v \in ModeInputs \ (Modes \cup {""}) :
          HandleMode(v) =>
              /\ resp'.code = 400
              /\ mode' = mode
              /\ statuses' = statuses
              /\ disk' = disk]_vars

\* A BOGUS mode-set was just rejected on a server in MANUAL mode with a
\* non-empty overlay.
C7_Witness ==
    /\ LastRequest("mode", <<"BOGUS">>, 400)
    /\ mode = "MANUAL"
    /\ statuses # EmptyMap

\* C8: in every reachable state the mode is AUTO or MANUAL, whatever the
\* state file held at startup and whatever requests followed, and only a
\* mode-set request changes it.
C8_ModeAlwaysValid ==
    /\ [](mode \in Modes)
    /\ [][mode' # mode => \E v \in Modes : HandleMode(v)]_vars

\* The state file carries an unrecognized mode, and the server, having
\* started on it, has served a request.
C8_Witness ==
    /\ disk.kind = "doc"
    /\ disk.mode = "BOGUS"
    /\ resp.handler = "mode"
    /\ mode = "AUTO"

\* C9: a restart restores the mode and the overlay the process held just
\* before it.
C9_RestartRestoresState ==
    [][boots' # boots => (mode' = mode /\ statuses' = statuses)]_vars

\* C10: while the state file is absent or unparsable the server holds the
\* defaults, mode AUTO and an empty overlay, the same for both, and is alive.
C10_DefaultsOnBadFile ==
    disk.kind \in {"absent", "corrupt"} =>
        /\ mode = "AUTO"
        /\ statuses = EmptyMap
        /\ ~panicked

\* The server has been started again on a file whose JSON has a field of the
\* wrong type, and has answered a mode read.
C10_Witness ==
    /\ disk = TypeErrorFile
    /\ boots > 0
    /\ LastRequest("mode", <<"">>, 200)
    /\ resp.text = "AUTO"

(***************************************************************************)
(* Properties of the destructive operations (checked under SpecDelete).    *)
(***************************************************************************)
\* A delete handler calls the provider exactly when it answers 200 (the call
\* succeeded) or 500 (the call failed); 400 and 403 are written before it.
DeleteCallMade(code) == code \in {200, 500}

\* C11: every delete request (note, sheet, doc) served while the mode is
\* AUTO is rejected with 403 and goes on to no delete call to the provider.
C11_DeletesOnlyInManual ==
    [][\A id \in {KeepId, SheetId, DocId} : \A ok \in BOOLEAN :
          (/\ mode = "AUTO"
           /\ \/ HandleDelete(id)
              \/ HandleDeleteSheet(id, ok)
              \/ HandleDeleteDoc(id, ok))
          => (/\ resp'.code = 403
              /\ ~DeleteCallMade(resp'.code)
              /\ \A p \in DeleteProcs : pub'[p].pc # "del_call")]_vars

(***************************************************************************)
(* Properties of the status overlay (checked under Spec).                  *)
(***************************************************************************)
\* the records of list l whose kinds are in kinds
OfKinds(l, kinds) == {i \in 1..Len(l) : l[i].type \in kinds}

\* One enrichItems pass (that of handleRegistry) over list l: a record of one
\* of the kinds that has no overlay entry is returned with the label "Keep"
\* and gets that entry; a record that has an entry is returned with it, and
\* the entry stays.
DefaultedByPass(l, kinds) ==
    \A i \in OfKinds(l, kinds) :
        IF l[i].id \in DOMAIN statuses
        THEN /\ resp'.items[i].status = statuses[l[i].id]
             /\ l[i].id \in DOMAIN statuses'
             /\ statuses'[l[i].id] = statuses[l[i].id]
        ELSE /\ resp'.items[i].status = "Keep"
             /\ l[i].id \in DOMAIN statuses'
             /\ statuses'[l[i].id] = "Keep"

\* The overlay entry of a provider record changes or goes away only in a
\* status-set for its id.
EntryStable ==
    \A id \in {KeepId, DocId} :
        (id \in DOMAIN statuses /\
            (id \notin DOMAIN statuses' \/ statuses'[id] # statuses[id]))
        => \E st \in StatusInputs : HandleStatus(id, st)

\* C12 as stated: for every record that has never been assigned a status,
\* whatever its kind, one enrichItems pass assigns the default label and
\* records it in the overlay, and every later pass returns that label as long
\* as no status-set for its id intervenes.
C12_DefaultAssignedAndStable ==
    [][/\ \A l \in ProviderLists :
              HandleRegistry(TRUE, l) => DefaultedByPass(l, {"keep", "doc", "sheet"})
       /\ EntryStable]_vars

\* C12 amended: the same for every record of kind keep, the one kind
\* enrichItems defaults.
C12_KeepDefaultAssignedAndStable ==
    [][/\ \A l \in ProviderLists :
              HandleRegistry(TRUE, l) => DefaultedByPass(l, {"keep"})
       /\ EntryStable]_vars

\* After a restart, a pass over a keep record and a doc record has returned
\* the keep record with the default label, which the overlay and the state
\* file hold, and the doc record without a label.
C12_Witness ==
    /\ LastRequest("registry", <<>>, 200)
    /\ boots > 0
    /\ Len(resp.items) = 2
    /\ resp.items[1].status = "Keep"
    /\ resp.items[2].status = ""
    /\ statuses = MapPut(EmptyMap, KeepId, "Keep")
    /\ disk.statuses = statuses

\* C13: once a status-set of label L for id X has been served, the overlay
\* holds L for X, and an enrichItems pass that follows it over a list
\* containing X returns X with status L (not the default), whatever the
\* record's kind and whatever the overlay held for X before.
C13_SetThenEnrichYieldsLabel ==
    /\ [](\A X \in StatusIdInputs \ {""} : \A L \in StatusInputs \ {""} :
            LastRequest("status", <<X, L>>, 200) =>
                (X \in DOMAIN statuses /\ statuses[X] = L))
    /\ [][\A X \in StatusIdInputs \ {""} : \A L \in StatusInputs \ {""} :
          \A l \in ProviderLists :
            (LastRequest("status", <<X, L>>, 200) /\ HandleRegistry(TRUE, l)) =>
                \A i \in 1..Len(l) :
                    l[i].id = X => resp'.items[i].status = L]_vars

\* A pass has returned the keep record with a label other than its default
\* and the doc record with a label: both labels were set by status-sets.
C13_Witness ==
    /\ LastRequest("registry", <<>>, 200)
    /\ Len(resp.items) = 2
    /\ resp.items[1].id = KeepId
    /\ resp.items[1].status = "Bogus"
    /\ resp.items[2].id = DocId
    /\ resp.items[2].status = "Execute"

\* C14: an enrichItems pass (that of handleRegistry) over list l returns
\* exactly one item per record of l, in the order of l, each with the id,
\* kind, title and preview of its record; its status is the overlay's entry
\* for the id after the pass, or empty when the overlay has none.
C14_OneItemPerRecordInOrder ==
    [][\A l \in ProviderLists :
          HandleRegistry(TRUE, l) =>
              /\ Len(resp'.items) = Len(l)
              /\ \A i \in 1..Len(l) :
                     /\ resp'.items[i].id = l[i].id
                     /\ resp'.items[i].type = l[i].type
                     /\ resp'.items[i].title = l[i].title
                     /\ resp'.items[i].snippet = l[i].snippet
                     /\ resp'.items[i].status =
                            IF l[i].id \in DOMAIN statuses'
                            THEN statuses'[l[i].id] ELSE ""]_vars

\* A pass over a keep record and a doc record has returned the two in that
\* order, with their titles and previews, the first with a label the
\* operator set, while the overlay holds a third id no record has.
C14_Witness ==
    /\ LastRequest("registry", <<>>, 200)
    /\ Len(resp.items) = 2
    /\ resp.items[1].title = KeepItem.title
    /\ resp.items[1].snippet = KeepItem.snippet
    /\ resp.items[1].status = "Execute"
    /\ resp.items[2].type = "doc"
    /\ resp.items[2].snippet = DocItem.snippet
    /\ RawId \in DOMAIN statuses

\* C15: a status-set request whose label is not one of Pending, Execute,
\* Keep is answered with a validation failure (400) and leaves the overlay
\* and the persisted document unchanged.
C15_UnknownLabelRejected ==
    [][\A id \in StatusIdInputs \ {""} : \A st \in StatusInputs \ Labels :
          HandleStatus(id, st) =>
              /\ resp'.code = 400
              /\ statuses' = statuses
              /\ disk' = disk]_vars

\* C16: a status-set of (id, label) with both present is served (200) for
\* any id, fetched or not; afterwards the overlay holds label for id and
\* exactly its former entries for every other id, the mode is unchanged, and
\* the state file holds the document written from the new overlay.
C16_StatusSetFrame ==
    [][\A id \in StatusIdInputs \ {""} : \A st \in StatusInputs \ {""} :
          HandleStatus(id, st) =>
              /\ resp'.code = 200
              /\ DOMAIN statuses' = DOMAIN statuses \cup {id}
              /\ statuses'[id] = st
              /\ \A k \in DOMAIN statuses \ {id} : statuses'[k] = statuses[k]
              /\ mode' = mode
              /\ disk' = MarshalState(mode, statuses')]_vars

\* In MANUAL mode a status-set for the doc id, which no fetch has returned,
\* was just served; the overlay holds it next to the keep record's entry,
\* and the state file has both.
C16_Witness ==
    /\ LastRequest("status", <<DocId, "Execute">>, 200)
    /\ DocId \notin hist.seen
    /\ mode = "MANUAL"
    /\ statuses = MapPut(MapPut(EmptyMap, KeepId, "Keep"), DocId, "Execute")
    /\ disk.statuses = statuses
    /\ disk.mode = "MANUAL"

\* C17: every key of the overlay is the id of a record some fetch from the
\* provider has returned earlier.
C17_OverlayKeysWereFetched == DOMAIN statuses \subseteq hist.seen

(***************************************************************************)
(* Properties of the poller (checked under SpecPoll and SpecHub).          *)
(***************************************************************************)
\* the poller is between two ticker firings
PollerWaiting == pub[PollerId].pc = "wait"

\* C18: while every ticker firing so far has observed AUTO, the countdown
\* having started at 60: before the 60th firing is over no broadcastRegistry
\* call has completed and, between firings, the countdown is 60 less the
\* number of firings; when the 60th is over, exactly one broadcastRegistry
\* call has been made, as the 61st publish call (right after the 60th tick
\* event), it has published the snapshot unless the provider fetch failed,
\* and the countdown is back at 60.
C18_SnapshotOnSixtiethTick ==
    ~hist.sawManual =>
        /\ (events < Period \/ (events = Period /\ ~PollerWaiting)) =>
               /\ hist.snaps = {}
               /\ hist.failed = {}
        /\ (events < Period /\ PollerWaiting) => remaining = Period - events
        /\ (events = Period /\ PollerWaiting) =>
               /\ hist.snaps \cup hist.failed = {Period + 1}
               /\ hist.failed = {} => hist.snaps = {Period + 1}
               /\ remaining = Period

\* The 60th firing is over, every firing observed AUTO, the one snapshot was
\* published (from a fetch that defaulted the keep record), and the
\* countdown is 60.
C18_Witness ==
    /\ ~hist.sawManual
    /\ events = Period
    /\ PollerWaiting
    /\ hist.snaps = {Period + 1}
    /\ hist.completed = 1..(Period + 1)
    /\ remaining = Period
    /\ KeepId \in DOMAIN statuses

\* C19: when the poller's provider fetch fails (it fetches on the firing
\* that took the countdown to zero), that step changes no mailbox, leaves
\* the overlay and the state file as they were, sets the countdown to 60 and
\* returns the poller, alive, to waiting for the next firing; the snapshot
\* of that call never shows up in a mailbox or on a stream; and a waiting
\* poller of a live process takes the next firing.
C19_FetchFailureSkipsCycle ==
    /\ [][\A l \in HubProviderLists :
             FetchRegistry(PollerId, FALSE, l) =>
                 /\ remaining = 0
                 /\ chans' = chans
                 /\ statuses' = statuses
                 /\ disk' = disk
                 /\ remaining' = Period
                 /\ pub'[PollerId].pc = "wait"
                 /\ ~panicked']_vars
    /\ [](\A c \in Conns : \A m \in HeldMsgs(c) : m.id \notin hist.failed)
    /\ []((~panicked /\ PollerWaiting /\ events < MaxEvents)
             => ENABLED PollerTick)

\* The poller's fetch failed, and the next firing has since counted down to
\* 59 and sent its tick to a subscriber that was registered all along and
\* never got a snapshot.
C19_Witness ==
    /\ hist.failed # {}
    /\ hist.snaps = {}
    /\ remaining = Period - 1
    /\ \E c \in clients :
           /\ hist.born[c] = {}
           /\ \E m \in HeldMsgs(c) : m.event = "tick" /\ m.count = Period - 1
           /\ \A m \in HeldMsgs(c) : m.event # ""

\* C20: a ticker firing that observes a mode other than AUTO (that is,
\* MANUAL) starts no publish call, neither of a tick event nor of a snapshot,
\* fetches nothing, changes no mailbox and leaves the countdown at 60; while
\* the poller waits only a firing changes the countdown; and a firing that
\* observes AUTO with the countdown at 60 publishes the tick 59.  So the AUTO
\* firing after a MANUAL one counts down from 60.
C20_ManualTickHoldsCountdown ==
    /\ [][(Tick(MaxTicks) /\ mode # "AUTO") =>
             /\ mode = "MANUAL"
             /\ pub' = pub
             /\ hist' = [hist EXCEPT !.sawManual = TRUE]
             /\ chans' = chans
             /\ statuses' = statuses
             /\ remaining' = Period]_vars
    /\ [][(PollerWaiting /\ remaining' # remaining) => Tick(MaxTicks)]_vars
    /\ [][(Tick(MaxTicks) /\ mode = "AUTO" /\ remaining = Period) =>
             /\ remaining' = Period - 1
             /\ pub'[PollerId].msg.event = "tick"
             /\ pub'[PollerId].msg.count = Period - 1]_vars

\* Four firings: two in AUTO (ticks 59 and 58), one in MANUAL, and one in
\* AUTO again, whose tick, the third published, says 59.
C20_Witness ==
    /\ events = 4
    /\ hist.sawManual
    /\ hist.nextId = 4
    /\ pub[PollerId].msg.event = "tick"
    /\ pub[PollerId].msg.id = 3
    /\ pub[PollerId].msg.count = Period - 1
    /\ remaining = Period - 1

(***************************************************************************)
(* Properties of the note delete under mode changes (SpecDelete).          *)
(***************************************************************************)
\* C28: the provider delete of a note delete request never executes at an
\* instant when the mode is AUTO, whatever mode-sets run between the
\* request's mode check and its provider call.
C28_DeleteCallOnlyInManual ==
    [][\A p \in DeleteProcs : \A ok \in BOOLEAN :
          DeleteNote(p, ok) => mode = "MANUAL"]_vars

(***************************************************************************)
(* Properties of the locks and of saveState (SpecLock, SpecCrash).         *)
(***************************************************************************)
\* the tasks that take modeMu's write lock in these specifications
Writers == Reqs \cup DeleteProcs

\* one task holds modeMu before and after the step
HeldThroughout == \E t \in Writers : modeMu = {t} /\ modeMu' = {t}

\* C21: the state file, the mode and the overlay change only in steps of a
\* task that holds modeMu exclusively; the document a handler writes equals
\* the (mode, overlay) pair in memory at the instant of the write; and
\* whenever the lock is free the file holds the document of the current
\* pair (or nothing was ever changed), so the writes land in the order in
\* which the mutations took the lock.
C21_SavesUnderLock ==
    /\ [][(disk' # disk \/ mode' # mode \/ statuses' # statuses)
             => HeldThroughout]_vars
    /\ [][\A t \in Reqs :
             ReqWrite(t) => disk' = MarshalState(mode, statuses)]_vars
    /\ [](modeMu = {} =>
             \/ disk = MarshalState(mode, statuses)
             \/ (disk = NoFile /\ mode = "AUTO" /\ statuses = EmptyMap))

\* A status-set waits for the lock while a broadcastRegistry goroutine, in
\* MANUAL mode, holds it at the end of an enrichItems pass that defaulted
\* the keep record and wrote the document.
C21_Witness ==
    \E p \in DeleteProcs : \E t \in Reqs :
        /\ modeMu = {p}
        /\ pub[p].pc = "enr_unlock"
        /\ rq[t].op = "status"
        /\ rq[t].pc = "lock"
        /\ mode = "MANUAL"
        /\ statuses = MapPut(EmptyMap, KeepId, "Keep")
        /\ disk = MarshalState(mode, statuses)

\* C22: at every instant, a process exit in the middle of a save included,
\* the state file is a whole document (the previous one or the new one) or
\* was never written: the file the next start reads is never a truncated one.
C22_StoredDocumentWhole ==
    [][boots' # boots => disk.kind # "corrupt"]_vars

(***************************************************************************)
(* Properties under a storage that may fail (SpecFault).                   *)
(***************************************************************************)
\* C23: when saveState fails during a mode-set, a status-set or an
\* enrichItems pass, the mutation is kept in memory, the request is answered
\* 200, and the value stays until the next mutation or process start, so a
\* later mode read or listing in the same process returns it.
C23_SaveFailureKeepsMutation ==
    /\ [][\A m \in Modes :
             (HandleMode(m) /\ ~diskOk) =>
                 /\ mode' = m
                 /\ resp'.code = 200
                 /\ disk' \in {disk, CorruptFile}]_vars
    /\ [][\A id \in {KeepId}, st \in {"Execute"} :
             (HandleStatus(id, st) /\ ~diskOk) =>
                 /\ statuses' = MapPut(statuses, id, st)
                 /\ resp'.code = 200
                 /\ disk' \in {disk, CorruptFile}]_vars
    /\ [][\A l \in ProviderLists :
             (HandleRegistry(TRUE, l) /\ ~diskOk) =>
                 /\ statuses' = EnrichItems(l, statuses).statuses
                 /\ resp'.code = 200
                 /\ resp'.items = EnrichItems(l, statuses).items
                 /\ disk' \in {disk, CorruptFile}]_vars
    /\ [][HandleMode("") => resp'.text = mode]_vars
    /\ [][boots' = boots =>
             /\ mode' # mode => \E m \in Modes : HandleMode(m)
             /\ \A id \in DOMAIN statuses :
                    /\ id \in DOMAIN statuses'
                    /\ statuses'[id] # statuses[id] =>
                           \E st \in {"Execute"} : HandleStatus(id, st)]_vars

\* No file was ever written (both saves failed before truncating), yet in
\* the same process the mode read answers MANUAL and the overlay holds the
\* label set for the keep record.
C23_Witness ==
    /\ boots = 0
    /\ disk = NoFile
    /\ ~diskOk
    /\ mode = "MANUAL"
    /\ statuses = MapPut(EmptyMap, KeepId, "Execute")
    /\ resp = Response("mode", <<"">>, 200, "MANUAL", <<>>)

Fresh(l) ==
    {i \in 1..Len(l) : l[i].type = "keep" /\ l[i].id \notin DOMAIN statuses}

\* C25: an enrichItems pass (that of a listing) writes the state file if and
\* only if it defaulted at least one record, and then once, with the
\* document of the overlay as it is after the whole pass (every record
\* defaulted by the pass is in it); a pass that defaults nothing leaves the
\* file and the overlay as they were, and so does a listing whose fetch
\* failed.
C25_OneWriteIffDefaulted ==
    [][\A l \in FaultLists :
          /\ HandleRegistry(TRUE, l) =>
                IF Fresh(l) # {}
                THEN /\ \A i \in Fresh(l) :
                            /\ l[i].id \in DOMAIN statuses'
                            /\ statuses'[l[i].id] = "Keep"
                     /\ diskOk => /\ disk' = MarshalState(mode, statuses')
                                  /\ \A i \in Fresh(l) :
                                         l[i].id \in DOMAIN disk'.statuses
                     /\ ~diskOk => disk' \in {disk, CorruptFile}
                ELSE /\ disk' = disk
                     /\ statuses' = statuses
          /\ HandleRegistry(FALSE, l) => (disk' = disk /\ statuses' = statuses)]_vars

\* A listing of two keep records has answered with both defaulted, and the
\* file holds the one document with both entries.
C25_Witness ==
    /\ boots = 0
    /\ diskOk
    /\ LastRequest("registry", <<>>, 200)
    /\ Len(resp.items) = 2
    /\ \A i \in 1..2 : resp.items[i].status = "Keep"
    /\ DOMAIN statuses = {KeepId, Keep2Item.id}
    /\ disk = MarshalState(mode, statuses)

\* the tick events a mailbox, a publisher or a writer holds
TickCounts ==
    UNION {{chans[c].buf[i].count :
               i \in {k \in 1..Len(chans[c].buf) : chans[c].buf[k].event = "tick"}} :
           c \in Conns}
    \cup {pub[PollerId].msg.count : x \in {y \in {1} : pub[PollerId].msg.event = "tick"}}
    \cup {lastOut[c].count : c \in {d \in Conns : lastOut[d].event = "tick"}}

\* the registry publishes of the poller that are over
RegistryIds == hist.snaps \cup hist.failed

\* C26: a ticker firing that observes AUTO decrements the countdown by one
\* and begins the publish of a tick event carrying the new count; the
\* countdown changes only by such a decrement or by a reset to the period;
\* every tick event carries a count in 0..Period-1; two tick events of one
\* cycle in a mailbox differ in count by the number of firings between them
\* (one per firing); and the snapshot of the firing that reached zero is
\* published after the publish of tick 0 is over, so it follows tick 0 in
\* every mailbox that holds both.
C26_TickCountsDown ==
    /\ [][(PollerTick /\ mode = "AUTO") =>
             /\ remaining' = remaining - 1
             /\ pub'[PollerId].pc = "tick_lock"
             /\ pub'[PollerId].msg.event = "tick"
             /\ pub'[PollerId].msg.count = remaining']_vars
    /\ [][remaining' # remaining =>
             \/ remaining' = remaining - 1 /\ pub[PollerId].pc = "wait"
             \/ remaining' = Period]_vars
    /\ [](TickCounts \subseteq 0..(Period - 1))
    /\ [](\A c \in Conns : \A i, j \in 1..Len(chans[c].buf) :
             LET a == chans[c].buf[i]
                 b == chans[c].buf[j] IN
             /\ (/\ i < j
                 /\ a.event = "tick"
                 /\ b.event = "tick"
                 /\ \A n \in RegistryIds : ~(a.id < n /\ n < b.id))
                    => a.count - b.count = b.id - a.id
             /\ (/\ a.event = "tick"
                 /\ a.count = 0
                 /\ b.event = ""
                 /\ b.id = a.id + 1)
                    => i < j)
    /\ [](pub[PollerId].pc \in {"reg_fetch", "reg_lock", "reg_iter"} =>
             /\ remaining = 0
             /\ pub[PollerId].msg.id - 1 \in hist.completed)

\* A mailbox holds tick 1, tick 0 and, right after it, the snapshot of the
\* firing that reached zero.
C26_Witness ==
    \E c \in Conns : \E i \in 1..Len(chans[c].buf) :
        /\ i >= 2
        /\ i < Len(chans[c].buf)
        /\ chans[c].buf[i - 1].event = "tick"
        /\ chans[c].buf[i - 1].count = 1
        /\ chans[c].buf[i].event = "tick"
        /\ chans[c].buf[i].count = 0
        /\ chans[c].buf[i + 1].event = ""
        /\ chans[c].buf[i + 1].id = chans[c].buf[i].id + 1

(***************************************************************************)
(* Further properties of the poller under mode changes (SpecPoll).         *)
(***************************************************************************)
\* C27: the poller reads the mode once per ticker firing.  While the mode is
\* MANUAL and no firing is in progress, no step begins a publish, sends to a
\* mailbox or fetches (a firing that starts then publishes nothing); a
\* publish that begins while the mode is MANUAL is the snapshot of the one
\* firing that read AUTO before the mode-set and was still in progress; and
\* a mode-set never touches the poller.
C27_ModeTakesEffectNextTick ==
    /\ [][(mode = "MANUAL" /\ PollerWaiting) =>
             /\ pub' = pub
             /\ hist'.nextId = hist.nextId
             /\ chans' = chans
             /\ statuses' = statuses]_vars
    /\ [][(mode = "MANUAL" /\ hist'.nextId # hist.nextId) =>
             /\ pub[PollerId].pc = "tick_iter"
             /\ pub'[PollerId].pc = "reg_fetch"]_vars
    /\ [][mode' # mode => (pub' = pub /\ remaining' = remaining)]_vars

\* The mode is MANUAL after a completed mode-set, no firing has observed
\* MANUAL yet, and the firing that read AUTO is publishing its snapshot.
C27_Witness ==
    /\ mode = "MANUAL"
    /\ LastRequest("mode", <<"MANUAL">>, 200)
    /\ ~hist.sawManual
    /\ pub[PollerId].pc = "reg_lock"
    /\ remaining = 0

(***************************************************************************)
(* Further properties of the locks (SpecLock).                             *)
(***************************************************************************)
\* the positions of a request inside its modeMu critical section
InCritical == {"body", "marshal", "open", "write", "respond", "unlock"}

\* C29: a status-set and an enrichItems pass over the same id never overlap
\* (each runs its critical section holding modeMu alone); the pass leaves
\* every existing entry as it is and the set puts its label whatever the
\* entry was; so from the moment the set has been answered the entry is its
\* label, whether the pass ran before it, after it, or waited for it.
C29_SetAndEnrichSerialized ==
    /\ [](\A t \in Reqs : \A p \in DeleteProcs :
             /\ rq[t].pc \in InCritical => modeMu = {t}
             /\ pub[p].pc \in {"enr_body", "enr_unlock"} => modeMu = {p})
    /\ [][\A p \in DeleteProcs :
             EnrichBody(p) =>
                 /\ \A id \in DOMAIN statuses :
                        id \in DOMAIN statuses' /\ statuses'[id] = statuses[id]
                 /\ KeepId \in ItemIds(pub[p].msg.items) =>
                        KeepId \in DOMAIN statuses']_vars
    /\ [][\A t \in Reqs :
             StatusBody(t) =>
                 /\ rq[t].a \in DOMAIN statuses'
                 /\ statuses'[rq[t].a] = rq[t].b]_vars
    /\ [](LastRequest("status", <<KeepId, "Execute">>, 200) =>
             /\ KeepId \in DOMAIN statuses
             /\ statuses[KeepId] = "Execute")

\* The pass took the lock first and defaulted the keep record (its snapshot
\* says "Keep"); the status-set, answered since, replaced the default, and
\* the file holds the label.
C29_Witness ==
    \E p \in DeleteProcs :
        /\ pub[p].pc = "reg_lock"
        /\ Len(pub[p].msg.items) = 1
        /\ pub[p].msg.items[1].id = KeepId
        /\ pub[p].msg.items[1].status = "Keep"
        /\ LastRequest("status", <<KeepId, "Execute">>, 200)
        /\ statuses = MapPut(EmptyMap, KeepId, "Execute")
        /\ disk = MarshalState(mode, statuses)

(***************************************************************************)
(* Properties of the two locks together (SpecAll).                         *)
(***************************************************************************)
\* the next step of the task that holds modeMu / clientsMu can be taken
ModeHolderCanStep ==
    /\ \A t \in Reqs :
           t \in modeMu =>
               ENABLED (ModeBody(t) \/ ReqMarshal(t) \/ ReqOpen(t)
                            \/ ReqWrite(t) \/ ReqUnlock(t))
    /\ \A p \in Pubs :
           p \in modeMu => ENABLED (EnrichBody(p) \/ EnrichUnlock(p))

HubHolderCanStep ==
    \A p \in Pubs :
        p \in clientsMu => ENABLED (Unlock(p) \/ \E c \in Conns : TrySend(p, c))

\* C30: no task holds modeMu and clientsMu together; each lock has at most
\* one holder; a task that waits for the provider (the fetch of
\* broadcastRegistry, the delete call) or for a lock holds none, and only
\* requests and publishers ever hold one, so the initial-snapshot goroutine
\* does its blocking send without a lock; and, while the process runs, the
\* holder of a lock can always take its next step, so no task waits for a
\* lock forever.
C30_LocksIndependent ==
    /\ modeMu \cap clientsMu = {}
    /\ Cardinality(modeMu) <= 1
    /\ Cardinality(clientsMu) <= 1
    /\ modeMu \subseteq Reqs \cup Pubs
    /\ clientsMu \subseteq Pubs
    /\ \A p \in Pubs :
           /\ pub[p].pc \in {"wait", "none", "done", "del_call", "reg_fetch",
                             "enr_lock", "tick_lock", "reg_lock"}
                  => p \notin modeMu \cup clientsMu
           /\ pub[p].pc \in {"enr_body", "enr_unlock"}
                  => (p \in modeMu /\ p \notin clientsMu)
           /\ pub[p].pc \in {"tick_iter", "reg_iter"}
                  => (p \in clientsMu /\ p \notin modeMu)
    /\ \A t \in Reqs : rq[t].pc \in {"idle", "lock"} => t \notin modeMu
    /\ ~panicked =>
           /\ ModeHolderCanStep
           /\ HubHolderCanStep
           /\ \A c \in Conns :
                  gpc[c] = "send" =>
                      (ENABLED InitSend(c) \/ hpc[c] \in {"loop", "close"})

\* A mode-set waits for modeMu, which a delete's broadcastRegistry goroutine
\* holds inside enrichItems, while the poller holds clientsMu in
\* broadcastTick with a subscriber still to be sent to, and that
\* subscriber's goroutine has its snapshot ready to send.
C30_Witness ==
    \E t \in Reqs : \E p \in DeleteProcs : \E c \in Conns :
        /\ rq[t].pc = "lock"
        /\ modeMu = {p}
        /\ pub[p].pc = "enr_body"
        /\ clientsMu = {PollerId}
        /\ c \in pub[PollerId].todo
        /\ gpc[c] = "send"
        /\ ~panicked

(***************************************************************************)
(* Properties of the readers of the mode (SpecRead).                       *)
(***************************************************************************)
\* a get-mode request is inside its critical section
GetModeHolds(t) == rq[t].op = "mode" /\ rq[t].a = "" /\ t \in modeMu

\* C31: a read of the mode never holds modeMu together with a writer, and
\* reads share the lock: while a get-mode request holds it, the poller's
\* read and a note delete's read can still take it.
C31_ReadersShareLock ==
    /\ ReadHolders # {} => modeMu \subseteq ReadHolders
    /\ \A t \in Reqs :
           GetModeHolds(t) =>
               /\ (pub[PollerId].pc = "wait" /\ events < MaxEvents)
                      => ENABLED PollerRLock
               /\ (\E p \in DeleteProcs : pub[p].pc = "none")
                      => ENABLED DeleteRLock(KeepId)

(***************************************************************************)
(* Liveness of the hub (SpecHubFair).                                      *)
(***************************************************************************)
\* C32: a subscriber whose connection context is canceled is eventually out
\* of the registry with its mailbox closed; its mailbox is closed only after
\* it left the registry; and once it has left it is never registered again.
C32_CanceledEventuallyClosed ==
    /\ \A c \in Conns :
           ctxDone[c] ~> (c \notin clients /\ chans[c].state = "closed")
    /\ [](\A c \in Conns : chans[c].state = "closed" => c \notin clients)
    /\ [][\A c \in Conns :
             (c \notin clients /\ hpc[c] \in {"close", "done"})
                 => c \notin clients']_vars

(***************************************************************************)
(* Properties of a subscriber's lifecycle (SpecHub).                       *)
(***************************************************************************)
\* publisher p's select finds subscriber c's open mailbox full
FindsFull(p, c) ==
    TrySend(p, c) /\ chans[c].state = "open" /\ IsFull(chans[c])

\* the cleanup of a disconnected subscriber deregisters it, then closes its
\* mailbox
RemovedOnDisconnect ==
    \A c \in Conns :
        /\ Unregister(c) => (ctxDone[c] /\ c \notin clients')
        /\ Close(c) => (c \notin clients /\ chans'[c].state = "closed")

\* C33: a subscriber is deregistered and its mailbox closed when its
\* connection disconnects, and it is deregistered when a publisher finds its
\* mailbox full.
C33_RemovedOnDisconnectOrBackpressure ==
    [][/\ RemovedOnDisconnect
       /\ \A p \in Pubs : \A c \in Conns :
              FindsFull(p, c) => c \notin clients']_vars

\* C33 amended: a subscriber is deregistered and its mailbox closed when its
\* connection disconnects, and only then; a publisher that finds its mailbox
\* full drops the message and leaves it registered, its mailbox open and
\* unchanged.
C33_RemovedOnDisconnectOnly ==
    [][/\ RemovedOnDisconnect
       /\ \A p \in Pubs : \A c \in Conns :
              FindsFull(p, c) =>
                  /\ c \in clients'
                  /\ clients' = clients
                  /\ chans'[c] = chans[c]
       /\ \A c \in Conns :
              (c \in clients /\ c \notin clients') => Unregister(c)
       /\ \A c \in Conns :
              (chans[c].state = "open" /\ chans'[c].state # "open") => Close(c)]_vars

\* A publish call has returned after dropping its message for a subscriber
\* whose mailbox was full; the subscriber, not disconnected, is still
\* registered with its full mailbox open.
C33_Witness ==
    \E c \in clients : \E id \in hist.completed \ hist.born[c] :
        /\ clientsMu = {}
        /\ ~ctxDone[c]
        /\ hpc[c] = "loop"
        /\ chans[c].state = "open"
        /\ IsFull(chans[c])
        /\ \A i \in 1..Len(chans[c].buf) : chans[c].buf[i].id < id
        /\ lastOut[c].id < id

(***************************************************************************)
(* Properties of mutations and the hub together (SpecNotify).              *)
(***************************************************************************)
\* the step begins a publish call or starts a goroutine that will
PublishBegins ==
    \/ hist'.nextId > hist.nextId
    \/ \E p \in Pubs : pub'[p].pc # pub[p].pc

\* C34: a successful mode-set or status-set, once its state file is
\* written, begins a hub publish for the connected subscribers.
C34_MutationPublishes ==
    [][/\ \A m \in Modes :
              (HandleMode(m) /\ clients # {}) => PublishBegins
       /\ \A st \in {"Execute"} :
              (HandleStatus(KeepId, st) /\ clients # {}) => PublishBegins]_vars

(***************************************************************************)
(* Properties of the overlay under every operation (SpecOverlay).          *)
(***************************************************************************)
\* the step runs an enrichItems pass
EnrichRuns ==
    \/ \E l \in ProviderLists : HandleRegistry(TRUE, l)
    \/ \E p \in Pubs : \E l \in ProviderLists : FetchRegistry(p, TRUE, l)

\* the step is a status-set
StatusSetRuns ==
    \E id \in {KeepId, DocId} : HandleStatus(id, "Execute")

\* C35: within one process no step removes a key of the overlay; only a
\* status-set and an enrichItems pass change the overlay at all (a delete,
\* a mode-set and a publish leave it as it is, the entry of a deleted note
\* included); and an enrichItems pass leaves the label of every key already
\* present.
C35_OverlayOnlyGrows ==
    [][/\ DOMAIN statuses \subseteq DOMAIN statuses'
       /\ statuses' # statuses => (StatusSetRuns \/ EnrichRuns)
       /\ (statuses' # statuses /\ ~StatusSetRuns) =>
              \A id \in DOMAIN statuses : statuses'[id] = statuses[id]]_vars

\* The note k1 has been deleted at the provider and the goroutine of that
\* delete has fetched a list without it and published; the overlay still
\* holds the label set for k1 and one for the doc.
C35_Witness ==
    \E p \in DeleteProcs :
        /\ pub[p].pc = "done"
        /\ pub[p].msg.items = <<>>
        /\ pub[p].arg = KeepId
        /\ mode = "MANUAL"
        /\ DOMAIN statuses = {KeepId, DocId}
        /\ statuses[KeepId] = "Execute"

(***************************************************************************)
(* Properties of the note delete and the hub (SpecDeleteHub).              *)
(***************************************************************************)
\* C36: a note delete the provider accepts answers 200 and starts exactly
\* one broadcastRegistry call, which runs after the answer (asynchronously)
\* and, once it has fetched, hands its snapshot to every registered
\* subscriber with room (it ends having published, or having failed to
\* fetch); a delete the provider refuses answers 500 to its
\* caller, starts no publish, and leaves the mode, the overlay, the state
\* file and every mailbox as they were.
C36_DeleteTriggersOnePublish ==
    /\ [][\A p \in DeleteProcs :
             DeleteNote(p, TRUE) =>
                 /\ resp' = Response("delete", <<pub[p].arg>>, 200, "", <<>>)
                 /\ hist'.nextId = hist.nextId + 1
                 /\ pub'[p].pc = "reg_fetch"
                 /\ pub'[p].msg.id = hist.nextId
                 /\ \A q \in Pubs \ {p} : pub'[q] = pub[q]
                 /\ <<mode, statuses, disk, chans>>' = <<mode, statuses, disk, chans>>]_vars
    /\ [][\A p \in DeleteProcs :
             DeleteNote(p, FALSE) =>
                 /\ resp'.code = 500
                 /\ hist' = hist
                 /\ \A q \in Pubs \ {p} : pub'[q] = pub[q]
                 /\ pub'[p] = IdlePub
                 /\ <<mode, statuses, disk, chans, clients>>'
                        = <<mode, statuses, disk, chans, clients>>]_vars
    /\ [][\A p \in DeleteProcs : \A c \in Conns :
             (TrySend(p, c) /\ ~IsFull(chans[c])) =>
                 /\ pub[p].msg.event = ""
                 /\ HasMsg(c, pub[p].msg.id)']_vars
    /\ [](\A p \in DeleteProcs :
             /\ pub[p].pc = "reg_iter" => pub[p].todo \subseteq clients
             /\ pub[p].pc = "done" =>
                    pub[p].msg.id \in hist.snaps \cup hist.failed)

\* The delete was answered 200 and its goroutine has finished; a subscriber
\* holds the snapshot that goroutine published.
C36_Witness ==
    \E p \in DeleteProcs : \E c \in clients :
        /\ pub[p].pc = "done"
        /\ pub[p].msg.id \in hist.snaps
        /\ LastRequest("delete", <<KeepId>>, 200)
        /\ HasMsg(c, pub[p].msg.id)

(***************************************************************************)
(* Properties of the initial snapshot (SpecHub).                           *)
(***************************************************************************)
\* C37: the goroutine of a new connection sends one snapshot to its own
\* mailbox when its fetch succeeded and nothing when it failed, whatever the
\* mode; its send is the one send that waits for room; and the goroutine
\* never outlives its subscriber: while it has yet to fetch or to send, the
\* connection's handler is still in its event loop, so the send never meets
\* a mailbox nobody reads or one that was closed.
C37_InitialSendBounded ==
    /\ [][\A c \in Conns : \A l \in HubProviderLists :
             /\ InitFetch(c, FALSE, l) => (gpc'[c] = "done" /\ chans' = chans)
             /\ InitFetch(c, TRUE, l) =>
                    (gpc'[c] = "send" /\ gmsg'[c].event = "" /\ chans' = chans)
             /\ (InitSend(c) /\ ~panicked') =>
                    /\ gpc'[c] = "done"
                    /\ Len(chans'[c].buf) = Len(chans[c].buf) + 1
                    /\ \A d \in Conns \ {c} : chans'[d] = chans[d]]_vars
    /\ [](\A c \in Conns :
             gpc[c] \in {"fetch", "send"} => hpc[c] = "loop")
    /\ [](~panicked)

(***************************************************************************)
(* Properties of the order of snapshots (SpecSnapshots).                   *)
(***************************************************************************)
\* message m is a snapshot that gives the note k1 the label lab
SnapshotSays(m, lab) ==
    /\ m.event = ""
    /\ Len(m.items) >= 1
    /\ m.items[1].id = KeepId
    /\ m.items[1].status = lab

\* C38: snapshots reach a subscriber in the order of the overlay states
\* they were computed from.  Here the entry of k1 goes from the default
\* "Keep" to "Execute" and never back, so no mailbox holds a snapshot that
\* says "Keep" behind one that says "Execute".
C38_SnapshotsInOverlayOrder ==
    \A c \in Conns : \A i, j \in 1..Len(chans[c].buf) :
        i < j => ~(/\ SnapshotSays(chans[c].buf[i], "Execute")
                   /\ SnapshotSays(chans[c].buf[j], "Keep"))

\* ---------------------------------------------------------------------------
\* The browser console (web/src/App.jsx): the displayed registry and the
\* selection. Its requests to the server are answered asynchronously; a
\* response is an input of the handler that consumes it.
\* ---------------------------------------------------------------------------

MaxList == 3

\* an item of a snapshot or of a /api/registry response, as the console reads it
ConsoleItem(id, type, status) == [id |-> id, type |-> type, status |-> status]

\* the lists a snapshot or a registry response may carry: record i is a note
\* with its overlay label, or a document
SnapshotLists ==
    UNION {[1..n -> {"keepKeep", "keepExecute", "doc"}] : n \in 0..MaxList}

ListItems(l) ==
    [i \in 1..Len(l) |->
        CASE l[i] = "keepKeep" -> ConsoleItem(i, "keep", "Keep")
          [] l[i] = "keepExecute" -> ConsoleItem(i, "keep", "Execute")
          [] OTHER -> ConsoleItem(i, "doc", "")]

IsKeep(item) == item.type = "keep"

\* list.filter(item => item.type === 'keep')
KeepOnly(list) == SelectSeq(list, IsKeep)

Min(a, b) == IF a < b THEN a ELSE b

\* registry[i] is defined (JavaScript indexes from 0)
HasItem(reg, i) == i \in 0..(Len(reg) - 1)
ItemAt(reg, i) == reg[i + 1]

\* The mount effect: the console takes the mode the server reports.
ConsoleInit(ok, m) ==
    /\ ~asserted
    /\ asserted' = TRUE
    /\ uiMode' = IF ok THEN m ELSE uiMode
    /\ UNCHANGED <<selectedIndex, showDetail, registry>>
    /\ UNCHANGED <<srvVars, hubVars>>

\* es.onmessage: a streamed snapshot replaces the registry and clamps the
\* selection.
OnMessage(list) ==
    LET filtered == KeepOnly(ListItems(list)) IN
    /\ registry' = filtered
    /\ selectedIndex' = IF Len(filtered) = 0 THEN 0
                        ELSE Min(selectedIndex, Len(filtered) - 1)
    /\ UNCHANGED <<uiMode, showDetail, asserted>>
    /\ UNCHANGED <<srvVars, hubVars>>

\* fetchRegistry: the response replaces the registry; a failure leaves it.
fetchRegistry(ok, list) ==
    /\ registry' = IF ok THEN KeepOnly(ListItems(list)) ELSE registry
    /\ UNCHANGED selectedIndex

Keys == {"a", "m", "r", "R", "Escape", "ArrowDown", "ArrowUp", "Enter", " ",
         "Delete", "Backspace", "PageUp", "PageDown", "x"}

\* e.key.toLowerCase()
ToLowerCase(k) ==
    CASE k = "R" -> "r"
      [] k = "Escape" -> "escape"
      [] k = "ArrowDown" -> "arrowdown"
      [] k = "ArrowUp" -> "arrowup"
      [] k = "Enter" -> "enter"
      [] k = "Delete" -> "delete"
      [] k = "Backspace" -> "backspace"
      [] k = "PageUp" -> "pageup"
      [] k = "PageDown" -> "pagedown"
      [] OTHER -> k

\* the label the PageUp / PageDown branch sets: the other one of the cycle
\* ['Pending', 'Execute'], counted from 'Pending' when the label is not in it
NewStatus(status) == IF status = "Execute" THEN "Pending" ELSE "Execute"

\* handleKeyDown: one key press, with the response of the refresh it may start.
handleKeyDown(k, ok, list) ==
    LET key == ToLowerCase(k) IN
    /\ IF key = "a"
       THEN /\ uiMode' = "AUTO"
            /\ showDetail' = FALSE
            /\ UNCHANGED <<selectedIndex, registry>>
       ELSE IF key = "m"
       THEN /\ uiMode' = "MANUAL"
            /\ UNCHANGED <<selectedIndex, registry, showDetail>>
       ELSE IF key = "r"
       THEN /\ IF uiMode = "MANUAL"
               THEN fetchRegistry(ok, list)
               ELSE UNCHANGED <<registry, selectedIndex>>
            /\ UNCHANGED <<uiMode, showDetail>>
       ELSE IF uiMode # "MANUAL"
       THEN UNCHANGED <<uiMode, selectedIndex, registry, showDetail>>
       ELSE IF showDetail /\ key = "escape"
       THEN /\ showDetail' = FALSE
            /\ UNCHANGED <<uiMode, selectedIndex, registry>>
       ELSE IF k = "ArrowDown"
       THEN /\ selectedIndex' =
                   IF ~showDetail /\ Len(registry) > 0
                   THEN (selectedIndex + 1) % Len(registry)
                   ELSE selectedIndex
            /\ UNCHANGED <<uiMode, registry, showDetail>>
       ELSE IF k = "ArrowUp"
       THEN /\ selectedIndex' =
                   IF ~showDetail /\ Len(registry) > 0
                   THEN (selectedIndex - 1 + Len(registry)) % Len(registry)
                   ELSE selectedIndex
            /\ UNCHANGED <<uiMode, registry, showDetail>>
       ELSE IF k \in {"Enter", " "}
       THEN /\ showDetail' = IF Len(registry) # 0 /\ HasItem(registry, selectedIndex)
                             THEN TRUE ELSE showDetail
            /\ UNCHANGED <<uiMode, selectedIndex, registry>>
       ELSE IF k \in {"PageUp", "PageDown"}
       THEN /\ registry' =
                   IF Len(registry) # 0 /\ HasItem(registry, selectedIndex)
                      /\ ItemAt(registry, selectedIndex).type = "keep"
                   THEN LET cur == ItemAt(registry, selectedIndex) IN
                        [i \in 1..Len(registry) |->
                            IF registry[i].id = cur.id
                            THEN [registry[i] EXCEPT !.status = NewStatus(cur.status)]
                            ELSE registry[i]]
                   ELSE registry
            /\ UNCHANGED <<uiMode, selectedIndex, showDetail>>
       ELSE UNCHANGED <<uiMode, selectedIndex, registry, showDetail>>
    /\ UNCHANGED asserted
    /\ UNCHANGED <<srvVars, hubVars>>

\* the keys that start a manual refresh, whose response is an input
RefreshKeys == {"r", "R"}

InitConsole == InitPoll

NextConsole ==
    \/ \E ok \in BOOLEAN, m \in Modes : ConsoleInit(ok, m)
    \/ \E l \in SnapshotLists : OnMessage(l)
    \/ \E k \in Keys \ RefreshKeys : handleKeyDown(k, FALSE, <<>>)
    \/ \E k \in RefreshKeys, ok \in BOOLEAN, l \in SnapshotLists :
          handleKeyDown(k, ok, l)

SpecConsole == InitConsole /\ [][NextConsole]_vars

\* C39: after any sequence of streamed snapshots, manual refreshes and
\* arrow-key presses, selectedIndex is a valid index of the displayed registry
\* (0 <= selectedIndex < length), or 0 when the registry is empty.
C39_SelectedIndexValid ==
    IF Len(registry) = 0
    THEN selectedIndex = 0
    ELSE selectedIndex \in 0..(Len(registry) - 1)

====
